---- MODULE Spec2Model ----
(***************************************************************************)
(* Deployment orchestration core of the Wren backend: the deployment      *)
(* store, the trigger scheduler, the fire callback, the run ledger and    *)
(* the script executor.                                                    *)
(* Strings that the code compares by prefix (deployment ids, job ids) are *)
(* sequences of one-character strings.                                     *)
(***************************************************************************)
EXTENDS Integers, Sequences, FiniteSets, Bags, TLC

VARIABLES
    deployments,  \* Storage: the "deployments" table, id -> row
    runs,         \* Storage: the "runs" table, id -> row
    jobs,         \* Scheduler._scheduler: the job store, a bag of jobs
    handlers,     \* request handlers in flight, slot -> position and locals
    tasks,        \* execute_run tasks in flight, slot -> position and locals
    now,          \* the wall clock (datetime.now)
    last,         \* the last completed call: its arguments and its result
    run_callback, \* Scheduler._run_callback
    execution,    \* the call of Executor.execute in progress, and its processes
    credentials,  \* CredentialStore: the "credentials" table,
                  \* <<user_id, integration>> -> stored dict
    startup       \* lifespan: the number of its startup steps done

vars == <<deployments, runs, jobs, handlers, tasks, now, last, run_callback,
          execution, credentials, startup>>

(***************************************************************************)
(* Bounds of the model.                                                    *)
(***************************************************************************)
MaxDeployments == 1
MaxTriggers == 1
MaxSchedulerTriggers == 2
MaxRuns == 2
MaxHandlers == 2
MaxLedgerRuns == 1
MaxTime == 2
MaxCronValue == 60
MaxCronFields == 6
MaxCredentialRows == 1
MaxClients == 2

None == "None"

(***************************************************************************)
(* Identifiers.  generate_id gives prefix + "_" + hex digits; the ids of   *)
(* the model are "d0", "d00", ... so that every id is a proper string      *)
(* prefix of the next one.                                                  *)
(***************************************************************************)
generate_id(prefix, i) == <<prefix>> \o [k \in 1..i |-> "0"]

DeploymentIds == {generate_id("d", i) : i \in 1..MaxDeployments}

RunIds == {generate_id("r", i) : i \in 1..MaxRuns}

\* str.startswith
startswith(s, p) == Len(s) >= Len(p) /\ SubSeq(s, 1, Len(p)) = p

(***************************************************************************)
(* Cron expressions.  A cron string is the list of its whitespace-         *)
(* separated fields (the result of str.split); a trigger without a cron    *)
(* string has NoCron.  A field is "*", "*/n", an integer, or text that is  *)
(* none of these ("1-5", "1,3,5", "abc").                                  *)
(***************************************************************************)
NoCron == [set |-> FALSE, parts |-> <<>>]
Cron(parts) == [set |-> TRUE, parts |-> parts]

Star == [k |-> "star", v |-> 0]
Step(n) == [k |-> "step", v |-> n]
Num(n) == [k |-> "int", v |-> n]
Word == [k |-> "word", v |-> 0]
\* "*/abc": a step that is not an integer
StepWord == [k |-> "stepword", v |-> 0]

\* "0 9 * * *"
CronDaily == Cron(<<Num(0), Num(9), Star, Star, Star>>)
\* "*/5 * * * *"
CronEvery5 == Cron(<<Step(5), Star, Star, Star, Star>>)
\* "invalid cron": two fields
CronTwoFields == Cron(<<Word, Word>>)
\* "abc * * * *": five fields, the first one unparseable
CronWord == Cron(<<Word, Star, Star, Star, Star>>)
\* "0 0 31 2 *": a day that no year has
CronNever == Cron(<<Num(0), Num(0), Num(31), Num(2), Star>>)

\* per-position bounds: minute, hour, day, month, day_of_week
ranges == <<<<0, 59>>, <<0, 23>>, <<1, 31>>, <<1, 12>>, <<0, 6>>>>

labels == <<"minute", "hour", "day", "month", "day_of_week">>

\* The message validate_cron_expression returns: its format, the label of
\* the field it is about and the value put in it (the number of parts, or
\* the field); the bounds a range message quotes are those of the label.
\* NoCronError is the return value None.
CronError(fmt, label, value) == [fmt |-> fmt, label |-> label, value |-> value]

NoCronError == CronError(None, None, Star)

\* the verdict on field i: its message, or NoCronError to go on
validate_part_no_range(part, i) ==
    CASE part.k = "star" -> NoCronError
      [] part.k = "step" ->
           IF part.v < 1
           THEN CronError("Invalid step value in {}: {}", labels[i], part)
           ELSE NoCronError
      [] part.k = "stepword" ->
           CronError("Invalid step value in {}: {}", labels[i], part)
      [] OTHER -> NoCronError

validate_part(part, i) ==
    CASE part.k = "star" -> NoCronError
      [] part.k = "step" ->
           IF part.v < 1
           THEN CronError("Invalid step value in {}: {}", labels[i], part)
           ELSE NoCronError
      [] part.k = "stepword" ->
           CronError("Invalid step value in {}: {}", labels[i], part)
      [] part.k = "int" ->
           IF part.v < ranges[i][1] \/ part.v > ranges[i][2]
           THEN CronError("Invalid {} value: {} (must be {}-{})", labels[i], part)
           ELSE NoCronError
      [] OTHER -> NoCronError

\* validate_cron_expression: the error message, or None if valid
validate_cron_expression(cron_expr) ==
    LET parts == cron_expr.parts IN
    IF Len(parts) # 5
    THEN CronError("Cron expression must have 5 parts, got {}", None,
                   Num(Len(parts)))
    ELSE LET errs == {i \in 1..5 : validate_part(parts[i], i) # NoCronError}
         IN IF errs = {} THEN NoCronError
            ELSE LET first == CHOOSE i \in errs : \A j \in errs : i <= j
                 IN validate_part(parts[first], first)

\* CronTrigger(minute=, hour=, day=, month=, day_of_week=, timezone=):
\* TRUE if the trigger is built, FALSE if the constructor raises
CronTrigger(cron_parts, timezone) ==
    LET parts == cron_parts IN
    /\ timezone = "UTC"
    /\ \A i \in 1..5 :
          CASE parts[i].k = "star" -> TRUE
            [] parts[i].k = "step" ->
                 parts[i].v >= 1 /\ parts[i].v <= ranges[i][2] - ranges[i][1]
            [] parts[i].k = "int" ->
                 parts[i].v >= ranges[i][1] /\ parts[i].v <= ranges[i][2]
            [] OTHER -> FALSE

(***************************************************************************)
(* Triggers and deployments.                                               *)
(***************************************************************************)
Trigger(type, func, cron, timezone) ==
    [type |-> type, func |-> func, cron |-> cron, timezone |-> timezone]

\* the triggers a deploy request may carry
DeployTriggers ==
    { Trigger("schedule", <<"f">>, CronDaily, "UTC"),
      Trigger("schedule", <<"g">>, CronEvery5, "UTC"),
      Trigger("schedule", <<"g">>, CronWord, "UTC"),
      Trigger("schedule", <<"g">>, NoCron, "UTC") }

\* the triggers of the Deployment objects handed to the Scheduler directly
SchedulerTriggers ==
    DeployTriggers \cup
    { Trigger("schedule", <<"f">>, CronEvery5, "UTC"),
      Trigger("schedule", <<"f">>, CronTwoFields, "UTC"),
      Trigger("webhook", <<"f">>, CronEvery5, "UTC"),
      Trigger("email", <<"g">>, CronDaily, "UTC"),
      Trigger("manual", <<"f">>, NoCron, "UTC") }

SeqsUpTo(S, n) == UNION {[1..k -> S] : k \in 0..n}

\* the users of the model; the requests of the application come from the
\* first one
Users == {"user_123", "user_456"}

get_current_user_id == "user_123"

\* a Deployment of get_current_user_id that uses no integration
Deployment(id, status, triggers) ==
    [id |-> id, status |-> status, triggers |-> triggers,
     user_id |-> get_current_user_id, integrations |-> <<>>]

(***************************************************************************)
(* Scheduler.                                                              *)
(***************************************************************************)
job_id(deployment_id, func) == deployment_id \o <<":">> \o func

Job(deployment_id, trigger) ==
    [id |-> job_id(deployment_id, trigger.func),
     args |-> <<deployment_id, "schedule", trigger.func>>,
     cron |-> trigger.cron,
     timezone |-> trigger.timezone]

JobIds(js) == {j.id : j \in BagToSet(js)}

\* len(get_jobs())
JobCount(js) == BagCardinality(js)

\* add_job(..., id=job_id, replace_existing=True): a job with the same id
\* is replaced, otherwise the job is added
add_job_duplicate(js, job) == js (+) SetToBag({job})

add_job(js, job) ==
    LET others == {j \in BagToSet(js) : j.id # job.id}
    IN [j \in others |-> js[j]] (+) SetToBag({job})

\* One iteration of the loop of register_deployment over acc =
\* [jobs, registered, raised].
register_trigger_no_except(acc, deployment_id, trigger) ==
    IF acc.raised \/ trigger.type # "schedule" THEN acc
    ELSE IF ~trigger.cron.set THEN acc
    ELSE IF Len(trigger.cron.parts) = 5
         THEN IF CronTrigger(trigger.cron.parts, trigger.timezone)
              THEN [acc EXCEPT !.jobs = add_job(acc.jobs, Job(deployment_id, trigger)),
                               !.registered = acc.registered + 1]
              ELSE [acc EXCEPT !.raised = TRUE]
         ELSE acc

register_trigger_any_type(acc, deployment_id, trigger) ==
    IF acc.raised THEN acc
    ELSE IF ~trigger.cron.set THEN acc
    ELSE IF Len(trigger.cron.parts) = 5
         THEN IF CronTrigger(trigger.cron.parts, trigger.timezone)
              THEN [acc EXCEPT !.jobs = add_job(acc.jobs, Job(deployment_id, trigger)),
                               !.registered = acc.registered + 1]
              ELSE acc
         ELSE acc

register_trigger(acc, deployment_id, trigger) ==
    IF acc.raised \/ trigger.type # "schedule" THEN acc
    ELSE IF ~trigger.cron.set THEN acc              \* missing_cron_expression
    ELSE IF Len(trigger.cron.parts) = 5
         THEN IF CronTrigger(trigger.cron.parts, trigger.timezone)
              THEN [acc EXCEPT !.jobs = add_job(acc.jobs, Job(deployment_id, trigger)),
                               !.registered = acc.registered + 1]
              ELSE acc                              \* except Exception: logged
         ELSE acc                                   \* invalid_cron_expression

RECURSIVE register_loop(_, _, _, _)
register_loop(acc, deployment_id, triggers, i) ==
    IF i > Len(triggers) THEN acc
    ELSE register_loop(register_trigger(acc, deployment_id, triggers[i]),
                       deployment_id, triggers, i + 1)

\* Scheduler.register_deployment: [jobs, registered, raised]
register_deployment_none(js, deployment) ==
    [jobs |-> js, registered |-> 0, raised |-> FALSE]

register_deployment(js, deployment) ==
    register_loop([jobs |-> js, registered |-> 0, raised |-> FALSE],
                  deployment.id, deployment.triggers, 1)

\* the test of unregister_deployment and get_next_run_time on a job
job_matches_no_colon(job, deployment_id) == startswith(job.id, deployment_id)

job_matches_underscore(job, deployment_id) ==
    startswith(job.id, deployment_id \o <<"_">>)

job_matches(job, deployment_id) == startswith(job.id, deployment_id \o <<":">>)

\* Scheduler.unregister_deployment: [jobs, removed]
unregister_deployment_first(js, deployment_id) ==
    LET mine == {j \in BagToSet(js) : job_matches(j, deployment_id)}
    IN IF mine = {} THEN [jobs |-> js, removed |-> 0]
       ELSE [jobs |-> js (-) SetToBag({CHOOSE j \in mine : TRUE}), removed |-> 1]

unregister_deployment(js, deployment_id) ==
    LET keep == {j \in BagToSet(js) : ~job_matches(j, deployment_id)}
        kept == [j \in keep |-> js[j]]
    IN [jobs |-> kept, removed |-> BagCardinality(js) - BagCardinality(kept)]

\* the last day of each month in a leap year
last_day == <<31, 29, 31, 30, 31, 30, 31, 31, 30, 31, 30, 31>>

\* job.next_run_time: the next fire time of the job's cron trigger after t,
\* in minutes since midnight, or <<>> (None) when the trigger never fires
\* again ("0 0 31 2 *": no such day): "*/n" in the minute field fires at
\* the next multiple of n, a fixed minute and hour at that time of this or
\* the next day, anything else within the minute
next_run_time(job, t) ==
    LET minute == job.cron.parts[1]
        hour == job.cron.parts[2]
        day == job.cron.parts[3]
        month == job.cron.parts[4]
    IN IF day.k = "int" /\ month.k = "int" /\ day.v > last_day[month.v]
       THEN <<>>
       ELSE CASE minute.k = "step" -> <<(t \div minute.v + 1) * minute.v>>
              [] minute.k = "int" /\ hour.k = "int" ->
                   LET at == hour.v * 60 + minute.v
                   IN IF at > t THEN <<at>> ELSE <<at + 24 * 60>>
              [] OTHER -> <<t + 1>>

\* Scheduler.get_next_run_time: the earliest next_run_time of the jobs of
\* the deployment that have one, <<>> (None) if there is none
get_next_run_time_any_job(js, deployment_id, t) ==
    LET times == {next_run_time(j, t)[1] :
                     j \in {k \in BagToSet(js) : next_run_time(k, t) # <<>>}}
    IN IF times = {} THEN <<>>
       ELSE <<CHOOSE x \in times : \A y \in times : x <= y>>

get_next_run_time(js, deployment_id, t) ==
    LET times == {next_run_time(j, t)[1] :
                     j \in {k \in BagToSet(js) :
                               /\ job_matches(k, deployment_id)
                               /\ next_run_time(k, t) # <<>>}}
    IN IF times = {} THEN <<>>
       ELSE <<CHOOSE x \in times : \A y \in times : x <= y>>

(***************************************************************************)
(* Deployment store (Storage, deployment operations).                      *)
(***************************************************************************)
NoDeployment == Deployment(<<>>, None, <<>>)

\* Storage.create_deployment: the row inserted, status active
create_deployment(ds, deployment_id, user_id, triggers, integrations) ==
    [d \in DOMAIN ds \cup {deployment_id} |->
        IF d = deployment_id
        THEN [status |-> "active", triggers |-> triggers, user_id |-> user_id,
              integrations |-> integrations]
        ELSE ds[d]]

\* Storage.get_deployment: the Deployment of the row, or NoDeployment
get_deployment(ds, deployment_id) ==
    IF deployment_id \in DOMAIN ds
    THEN [Deployment(deployment_id, ds[deployment_id].status,
                     ds[deployment_id].triggers)
             EXCEPT !.user_id = ds[deployment_id].user_id,
                    !.integrations = ds[deployment_id].integrations]
    ELSE NoDeployment

\* Storage.get_deployments_by_user: the Deployments of the rows of the user
\* whose status is not deleted (the order of the list is left out)
get_deployments_by_user(ds, user_id) ==
    {get_deployment(ds, d) :
        d \in {e \in DOMAIN ds : ds[e].user_id = user_id
                                  /\ ds[e].status # "deleted"}}

\* Storage.update_deployment_status: update ... where id = deployment_id
update_deployment_status(ds, deployment_id, status) ==
    [d \in DOMAIN ds |->
        IF d = deployment_id THEN [ds[d] EXCEPT !.status = status] ELSE ds[d]]

delete_deployment_hard(ds, deployment_id) ==
    [d \in DOMAIN ds \ {deployment_id} |-> ds[d]]

\* Storage.delete_deployment: soft delete
delete_deployment(ds, deployment_id) ==
    update_deployment_status(ds, deployment_id, "deleted")

\* Storage.get_active_deployments: the Deployments of the rows whose status
\* is active
get_active_deployments_all(ds) == {get_deployment(ds, d) : d \in DOMAIN ds}

get_active_deployments(ds) ==
    {get_deployment(ds, d) : d \in {e \in DOMAIN ds : ds[e].status = "active"}}

validate_triggers_first(triggers) ==
    LET t == triggers[1] IN
    IF triggers = <<>> \/ t.type # "schedule" THEN <<>>
    ELSE IF ~t.cron.set THEN <<"MISSING_CRON_EXPRESSION">>
    ELSE IF validate_cron_expression(t.cron) # NoCronError
         THEN <<"INVALID_CRON_EXPRESSION">>
         ELSE <<>>

\* validate_triggers: the codes of the errors it returns
validate_triggers(triggers) ==
    LET code(t) ==
            IF t.type # "schedule" THEN None
            ELSE IF ~t.cron.set THEN "MISSING_CRON_EXPRESSION"
            ELSE IF validate_cron_expression(t.cron) # NoCronError
                 THEN "INVALID_CRON_EXPRESSION"
                 ELSE None
    IN SelectSeq([i \in 1..Len(triggers) |-> code(triggers[i])],
                 LAMBDA c : c # None)

(***************************************************************************)
(* Run ledger (Storage, run operations).  An optional column is <<>> when  *)
(* it is null and <<v>> when it holds v.                                    *)
(***************************************************************************)
Terminal == {"success", "failed", "timeout", "cancelled"}

\* Executor.execute: the results it can return
ExecutionResult(status, exit_code, stdout, stderr, error_message) ==
    [status |-> status, exit_code |-> exit_code, stdout |-> stdout,
     stderr |-> stderr, error_message |-> error_message]

ExecutionResults ==
    { ExecutionResult("success", <<0>>, "out", "", <<>>),
      ExecutionResult("failed", <<1>>, "", "Traceback",
                      <<"Script exited with code 1">>),
      ExecutionResult("timeout", <<>>, "", "", <<"Execution timed out">>),
      ExecutionResult("failed", <<>>, "", "No such file",
                      <<"Failed to execute script">>) }

NoResult == ExecutionResult(None, <<>>, "", "", <<>>)

\* Storage.create_run: the row inserted
create_run(rs, run_id, deployment_id, trigger_type, trigger_func) ==
    [r \in DOMAIN rs \cup {run_id} |->
        IF r = run_id
        THEN [deployment_id |-> deployment_id, trigger_type |-> trigger_type,
              trigger_func |-> trigger_func, status |-> "pending",
              started_at |-> <<>>, completed_at |-> <<>>, duration_ms |-> <<>>,
              exit_code |-> <<>>, stdout |-> "", stderr |-> "",
              error_message |-> <<>>]
        ELSE rs[r]]

\* Storage.update_run_started: update ... where id = run_id
update_run_started_no_filter(rs, run_id, t) ==
    [r \in DOMAIN rs |->
        [rs[r] EXCEPT !.status = "running", !.started_at = <<t>>]]

update_run_started(rs, run_id, t) ==
    [r \in DOMAIN rs |->
        IF r = run_id
        THEN [rs[r] EXCEPT !.status = "running", !.started_at = <<t>>]
        ELSE rs[r]]

update_run_completed_always_duration(rs, run_id, t, result) ==
    LET started == IF run_id \in DOMAIN rs /\ rs[run_id].started_at # <<>>
                   THEN rs[run_id].started_at[1] ELSE 0
    IN [r \in DOMAIN rs |->
          IF r = run_id
          THEN [rs[r] EXCEPT !.status = result.status,
                             !.completed_at = <<t>>,
                             !.duration_ms = <<(t - started) * 1000>>,
                             !.exit_code = result.exit_code,
                             !.stdout = result.stdout,
                             !.stderr = result.stderr,
                             !.error_message = result.error_message]
          ELSE rs[r]]

\* Storage.update_run_completed, first request: select started_at where
\* id = run_id; the duration computed from the answer
select_duration_ms(rs, run_id, t) ==
    LET started == IF run_id \in DOMAIN rs THEN rs[run_id].started_at ELSE <<>>
    IN IF started # <<>> THEN <<(t - started[1]) * 1000>> ELSE <<>>

\* Storage.update_run_completed, second request: update ... where
\* id = run_id
update_completed_no_filter(rs, run_id, t, duration_ms, result) ==
    [r \in DOMAIN rs |->
        [rs[r] EXCEPT !.status = result.status,
                      !.completed_at = <<t>>,
                      !.duration_ms = duration_ms,
                      !.exit_code = result.exit_code,
                      !.stdout = result.stdout,
                      !.stderr = result.stderr,
                      !.error_message = result.error_message]]

update_completed(rs, run_id, t, duration_ms, result) ==
    [r \in DOMAIN rs |->
        IF r = run_id
        THEN [rs[r] EXCEPT !.status = result.status,
                           !.completed_at = <<t>>,
                           !.duration_ms = duration_ms,
                           !.exit_code = result.exit_code,
                           !.stdout = result.stdout,
                           !.stderr = result.stderr,
                           !.error_message = result.error_message]
        ELSE rs[r]]

\* Storage.update_run_completed, the two requests with nothing between them
update_run_completed(rs, run_id, t, result) ==
    update_completed(rs, run_id, t, select_duration_ms(rs, run_id, t), result)

(***************************************************************************)
(* Initial state: the services constructed, the tables and the job store   *)
(* empty, no request and no task in flight.                                 *)
(***************************************************************************)
(***************************************************************************)
(* Executor.  An environment is a function from variable names to values;  *)
(* a formatted message is its format string with the values put in it.     *)
(***************************************************************************)
Message(fmt, n, e) == [fmt |-> fmt, n |-> n, e |-> e]

\* dict.update: the entries of other replace and extend those of d
update(d, other) ==
    [k \in DOMAIN d \cup DOMAIN other |->
        IF k \in DOMAIN other THEN other[k] ELSE d[k]]

EmptyEnv == [k \in {} |-> ""]

\* process_env: os.environ, then the .env variables, then env
process_env(os_environ, dotenv, env) ==
    update(update(os_environ, dotenv), env)

\* create_subprocess_exec(env=process_env if process_env else None): with
\* env=None the child inherits the environment of this process
child_environment(penv, os_environ) ==
    IF DOMAIN penv # {} THEN penv ELSE os_environ

\* the wrapper script: the exit code of the interpreter for each behaviour
\* of the script function
wrapper_exit_code(behaviour) ==
    CASE behaviour = "returns" -> 0
      [] behaviour = "raises" -> 1          \* except Exception: sys.exit(1)
      [] behaviour = "sys_exit_2" -> 2      \* SystemExit is no Exception
      [] behaviour = "signal_9" -> 0 - 9    \* ended by a signal

\* the result when communicate() returns before the timeout
completed_result_success(exit_code, stdout, stderr) ==
    ExecutionResult("success", <<exit_code>>, stdout, stderr, <<>>)

completed_result(exit_code, stdout, stderr) ==
    IF exit_code = 0
    THEN ExecutionResult("success", <<exit_code>>, stdout, stderr, <<>>)
    ELSE ExecutionResult("failed", <<exit_code>>, stdout, stderr,
             <<Message("Script exited with code {exit_code}", <<exit_code>>, <<>>)>>)

\* the result on asyncio.TimeoutError
timeout_result(timeout_seconds) ==
    ExecutionResult("timeout", <<>>, "", "",
        <<Message("Execution timed out after {timeout_seconds} seconds",
                  <<timeout_seconds>>, <<>>)>>)

\* the result on any other exception e inside the try
error_result(e) ==
    ExecutionResult("failed", <<>>, "", e,
        <<Message("Failed to execute script: {e}", <<>>, <<e>>)>>)

\* finally: script_path.unlink(): whether the temporary file exists
\* afterwards
unlink_skipped(script_path) == script_path

unlink(script_path) == FALSE

\* no call of Executor.execute in progress
NoExecution ==
    [pc |-> "idle", timeout_seconds |-> 0, env |-> EmptyEnv,
     os_environ |-> EmptyEnv, dotenv |-> EmptyEnv, behaviour |-> None,
     script_path |-> FALSE, process |-> None, reaped |-> FALSE,
     launcher_execs |-> FALSE, script_process |-> None,
     child_env |-> EmptyEnv, started |-> 0, returncode |-> <<>>,
     result |-> NoResult, exception |-> <<>>]

(***************************************************************************)
(* Integration registry and credential store.  The names of integrations,  *)
(* credential keys and environment variables are strings of characters, so *)
(* that str.upper and the f-string of the fallback name are computed.  A   *)
(* stored credential dict is the list of its items, in the order of         *)
(* iteration; an optional dict is <<>> (None) or <<dict>>.                  *)
(***************************************************************************)
ascii_lowercase == <<"a", "b", "c", "d", "e", "f", "g", "h", "i", "j", "k",
        "l", "m", "n", "o", "p", "q", "r", "s", "t", "u", "v", "w", "x", "y",
        "z">>
ascii_uppercase == <<"A", "B", "C", "D", "E", "F", "G", "H", "I", "J", "K",
        "L", "M", "N", "O", "P", "Q", "R", "S", "T", "U", "V", "W", "X", "Y",
        "Z">>

\* str.upper
upper(s) ==
    [i \in 1..Len(s) |->
        IF \E n \in 1..Len(ascii_lowercase) : ascii_lowercase[n] = s[i]
        THEN ascii_uppercase[CHOOSE n \in 1..Len(ascii_lowercase) :
                               ascii_lowercase[n] = s[i]]
        ELSE s[i]]

CredentialSpec(key, env_var, required, refresh_key, refresh_env_var) ==
    [key |-> key, env_var |-> env_var, required |-> required,
     refresh_key |-> refresh_key, refresh_env_var |-> refresh_env_var]

IntegrationSpec(name, credential_specs) ==
    [name |-> name, credentials |-> credential_specs]

\* get_integration returns None
NoSpec == IntegrationSpec(<<>>, <<>>)

gmail == <<"g", "m", "a", "i", "l">>
messaging == <<"m", "e", "s", "s", "a", "g", "i", "n", "g">>
\* an integration without a registry entry
stripe == <<"s", "t", "r", "i", "p", "e">>
\* an integration registered by register_integration after the import
notes == <<"n", "o", "t", "e", "s">>

access_token == <<"a", "c", "c", "e", "s", "s", "_", "t", "o", "k", "e", "n">>
refresh_token == <<"r", "e", "f", "r", "e", "s", "h", "_", "t", "o", "k", "e", "n">>

GMAIL_SPEC ==
    IntegrationSpec(gmail, <<
        CredentialSpec(access_token, <<"G", "M", "A", "I", "L", "_", "A",
        "C", "C", "E", "S", "S", "_", "T", "O", "K", "E", "N">>,
                       TRUE, <<refresh_token>>,
                       <<<<"G", "M", "A", "I", "L", "_", "R", "E", "F", "R",
        "E", "S", "H", "_", "T", "O", "K", "E", "N">>>>)>>)

MESSAGING_SPEC == IntegrationSpec(messaging, <<>>)

\* a specification whose only credential is optional
NOTES_SPEC ==
    IntegrationSpec(notes, <<
        CredentialSpec(<<"a", "p", "i", "_", "k", "e", "y">>, <<"N", "O",
        "T", "E", "S", "_", "A", "P", "I", "_", "K", "E", "Y">>,
                       FALSE, <<>>, <<>>)>>)

register_integration(registry, spec) ==
    [n \in DOMAIN registry \cup {spec.name} |->
        IF n = spec.name THEN spec ELSE registry[n]]

\* the registry after the import of the integrations package
_INTEGRATION_REGISTRY ==
    register_integration(register_integration(<<>>, GMAIL_SPEC), MESSAGING_SPEC)

get_integration(registry, name) ==
    IF name \in DOMAIN registry THEN registry[name] ELSE NoSpec

\* IntegrationSpec.get_env_mapping: key -> env var name; a later entry of
\* the loop replaces an earlier one with the same key
get_env_mapping(spec) ==
    LET entries(c) ==
            IF c.refresh_key # <<>> /\ c.refresh_env_var # <<>>
            THEN <<<<c.key, c.env_var>>, <<c.refresh_key[1], c.refresh_env_var[1]>>>>
            ELSE <<<<c.key, c.env_var>>>>
        RECURSIVE all(_)
        all(i) == IF i > Len(spec.credentials) THEN <<>>
                  ELSE entries(spec.credentials[i]) \o all(i + 1)
        items == all(1)
    IN [k \in {items[i][1] : i \in 1..Len(items)} |->
          items[CHOOSE i \in 1..Len(items) :
                   /\ items[i][1] = k
                   /\ \A j \in 1..Len(items) : items[j][1] = k => j <= i][2]]

get_required_credential_keys(spec) ==
    {spec.credentials[i].key :
        i \in {j \in 1..Len(spec.credentials) : spec.credentials[j].required}}

\* the name of the environment variable of a stored key
env_var_name(registry, integration_name, cred_key) ==
    LET spec == get_integration(registry, integration_name)
        fallback == upper(integration_name) \o <<"_">> \o upper(cred_key)
    IN IF spec = NoSpec THEN fallback
       ELSE IF cred_key \in DOMAIN get_env_mapping(spec)
            THEN get_env_mapping(spec)[cred_key]
            ELSE fallback

\* get_env_for_credentials: the items are put in the dict one after the
\* other, a later item replacing an earlier one of the same name
get_env_for_credentials(registry, integration_name, stored) ==
    LET RECURSIVE put(_, _)
        put(env, i) ==
            IF i > Len(stored) THEN env
            ELSE put(update(env,
                            [n \in {env_var_name(registry, integration_name,
                                                 stored[i][1])} |->
                                stored[i][2]]),
                     i + 1)
    IN put(EmptyEnv, 1)

\* CredentialStore.get_credentials: the dict of the row, or None
get_credentials(table, user_id, integration) ==
    IF <<user_id, integration>> \in DOMAIN table
    THEN <<table[<<user_id, integration>>]>>
    ELSE <<>>

\* CredentialStore.set_credentials: upsert on (user_id, integration)
set_credentials(table, user_id, integration, creds) ==
    [r \in DOMAIN table \cup {<<user_id, integration>>} |->
        IF r = <<user_id, integration>> THEN creds ELSE table[r]]

\* CredentialStore.delete_credentials
delete_credentials(table, user_id, integration) ==
    [r \in DOMAIN table \ {<<user_id, integration>>} |-> table[r]]

in(k, creds) == \E i \in 1..Len(creds) : creds[i][1] = k

\* CredentialStore.has_credentials
has_credentials(registry, table, user_id, integration) ==
    LET spec == get_integration(registry, integration)
        creds == get_credentials(table, user_id, integration)
    IN IF spec # NoSpec /\ spec.credentials = <<>> THEN TRUE
       ELSE IF creds = <<>> \/ creds[1] = <<>> THEN FALSE
       ELSE IF spec # NoSpec
            THEN \A k \in get_required_credential_keys(spec) : in(k, creds[1])
            ELSE TRUE

\* CredentialStore.get_env_for_execution
get_env_for_execution(registry, table, user_id, integrations) ==
    LET RECURSIVE loop(_, _)
        loop(env, i) ==
            IF i > Len(integrations) THEN env
            ELSE LET creds == get_credentials(table, user_id, integrations[i])
                 IN loop(IF creds # <<>> /\ creds[1] # <<>>
                         THEN update(env, get_env_for_credentials(
                                            registry, integrations[i], creds[1]))
                         ELSE env,
                         i + 1)
    IN loop(EmptyEnv, 1)

\* validate_integrations: the codes of the errors it returns
validate_integrations(registry, table, integrations, user_id) ==
    SelectSeq([i \in 1..Len(integrations) |->
                  IF has_credentials(registry, table, user_id, integrations[i])
                  THEN None ELSE "INTEGRATION_NOT_CONFIGURED"],
              LAMBDA c : c # None)

\* lifespan, from the construction of the Scheduler to the yield: the calls
\* on the Scheduler, in the order in which lifespan makes them
lifespan_steps_register_first ==
    <<"get_active_deployments", "register_deployment", "set_run_callback",
      "start">>

lifespan_steps ==
    <<"set_run_callback", "get_active_deployments", "register_deployment",
      "start">>

NoJob == [id |-> <<>>, args |-> <<>>, cron |-> NoCron, timezone |-> None]

NoCall ==
    [op |-> None, dep |-> NoDeployment, id |-> <<>>, before |-> EmptyBag,
     ret |-> 0, raised |-> FALSE, again |-> FALSE, code |-> 0,
     job |-> NoJob, tasks |-> EmptyBag, next_run |-> <<>>,
     cron |-> NoCron, error |-> NoCronError, errors |-> <<>>,
     triggers |-> <<>>, user_id |-> None, integrations |-> <<>>,
     registry |-> <<>>, has |-> FALSE, env |-> EmptyEnv]

Init ==
    /\ deployments = <<>>
    /\ runs = <<>>
    /\ jobs = EmptyBag
    /\ handlers = EmptyBag
    /\ tasks = EmptyBag
    /\ now = 0
    /\ last = NoCall
    /\ run_callback = "execute_run"
    /\ execution = NoExecution
    /\ credentials = <<>>
    /\ startup = Len(lifespan_steps)

(***************************************************************************)
(* The request handlers.  A handler is a coroutine: it runs from one await *)
(* of a Storage call to the next in one step, and other handlers and tasks *)
(* may run between its steps.  Requests come from the deployment's owner.  *)
(***************************************************************************)
Handler(op, id, pc, dep) == [op |-> op, id |-> id, pc |-> pc, dep |-> dep]

Response(op, id, code, registered) ==
    [NoCall EXCEPT !.op = op, !.id = id, !.ret = registered, !.code = code]

\* deploy, up to the return of storage.create_deployment: validate the
\* integrations and the triggers, then store the deployment under a fresh id
Deploy(triggers, integrations) ==
    /\ BagCardinality(handlers) < MaxHandlers
    /\ LET errors == validate_integrations(_INTEGRATION_REGISTRY, credentials,
                                           integrations, get_current_user_id)
                        \o validate_triggers(triggers)
       IN IF errors # <<>>
          THEN /\ last' = [Response("deploy", <<>>, 400, 0)
                              EXCEPT !.errors = errors,
                                     !.triggers = triggers]
               /\ UNCHANGED <<deployments, runs, jobs, handlers, tasks, now, run_callback, execution, credentials, startup>>
          ELSE \E deployment_id \in DeploymentIds \ DOMAIN deployments :
                 /\ deployments' = create_deployment(deployments, deployment_id,
                                                     get_current_user_id, triggers,
                                                     integrations)
                 /\ handlers' = handlers (+) SetToBag({
                        Handler("deploy", deployment_id, "register",
                                [Deployment(deployment_id, "active", triggers)
                                    EXCEPT !.integrations = integrations])})
                 /\ UNCHANGED <<runs, jobs, tasks, now, last, run_callback, execution, credentials, startup>>

\* a deploy request whose metadata lists no integration
DeployCreate(triggers) == Deploy(triggers, <<>>)

\* deploy, after storage.create_deployment: register with the scheduler
\* and answer
DeployRegister(h) ==
    /\ h.op = "deploy" /\ h.pc = "register"
    /\ LET r == register_deployment(jobs, h.dep)
       IN /\ jobs' = r.jobs
          /\ last' = [Response("deploy", h.id, IF r.raised THEN 500 ELSE 200,
                               r.registered)
                         EXCEPT !.next_run = get_next_run_time(r.jobs, h.id, now)]
    /\ handlers' = handlers (-) SetToBag({h})
    /\ UNCHANGED <<deployments, runs, tasks, now, run_callback, execution, credentials, startup>>

\* delete, pause, resume: storage.get_deployment
GetDeployment(op, deployment_id) ==
    /\ BagCardinality(handlers) < MaxHandlers
    /\ handlers' = handlers (+) SetToBag({
           Handler(op, deployment_id, "got_deployment",
                   get_deployment(deployments, deployment_id))})
    /\ UNCHANGED <<deployments, runs, jobs, tasks, now, last, run_callback, execution, credentials, startup>>

\* delete, pause, resume: from the return of get_deployment to the call of
\* the status update: the checks and the scheduler call
CallScheduler_no_status_check(h) ==
    /\ h.pc = "got_deployment"
    /\ IF h.dep = NoDeployment
       THEN /\ last' = Response(h.op, h.id, 404, 0)
            /\ handlers' = handlers (-) SetToBag({h})
            /\ UNCHANGED jobs
       ELSE /\ jobs' = IF h.op = "resume"
                       THEN register_deployment(jobs, h.dep).jobs
                       ELSE unregister_deployment(jobs, h.id).jobs
            /\ handlers' = (handlers (-) SetToBag({h}))
                              (+) SetToBag({[h EXCEPT !.pc = "update_status"]})
            /\ UNCHANGED last
    /\ UNCHANGED <<deployments, runs, tasks, now, run_callback, execution, credentials, startup>>

CallScheduler(h) ==
    /\ h.pc = "got_deployment"
    /\ IF h.dep = NoDeployment
       THEN /\ last' = Response(h.op, h.id, 404, 0)
            /\ handlers' = handlers (-) SetToBag({h})
            /\ UNCHANGED jobs
       ELSE IF h.op = "resume" /\ h.dep.status # "paused"
       THEN /\ last' = Response(h.op, h.id, 400, 0)
            /\ handlers' = handlers (-) SetToBag({h})
            /\ UNCHANGED jobs
       ELSE /\ jobs' = IF h.op = "resume"
                       THEN register_deployment(jobs, h.dep).jobs
                       ELSE unregister_deployment(jobs, h.id).jobs
            /\ handlers' = (handlers (-) SetToBag({h}))
                              (+) SetToBag({[h EXCEPT !.pc = "update_status"]})
            /\ UNCHANGED last
    /\ UNCHANGED <<deployments, runs, tasks, now, run_callback, execution, credentials, startup>>

\* the status a request writes

new_status(op) ==
    CASE op = "pause" -> "paused"
      [] op = "resume" -> "active"
      [] op = "delete" -> "deleted"

\* delete, pause, resume: the status update, and the answer
UpdateStatus(h) ==
    /\ h.pc = "update_status"
    /\ deployments' = update_deployment_status(deployments, h.id, new_status(h.op))
    /\ handlers' = handlers (-) SetToBag({h})
    /\ last' = [Response(h.op, h.id, 200, 0)
                   EXCEPT !.next_run = IF h.op = "resume"
                                       THEN get_next_run_time(jobs, h.id, now)
                                       ELSE <<>>]
    /\ UNCHANGED <<runs, jobs, tasks, now, run_callback, execution, credentials, startup>>

(***************************************************************************)
(* Firing and the fire callback.  Scheduler._execute_job starts            *)
(* execute_run as a task of its own; the task runs from one await to the   *)
(* next in one step.                                                        *)
(***************************************************************************)
Task(deployment_id, trigger_type, func_name, pc, run_id, result) ==
    [deployment_id |-> deployment_id, trigger_type |-> trigger_type,
     func_name |-> func_name, pc |-> pc, run_id |-> run_id, result |-> result,
     awaited |-> FALSE, completed_at |-> 0, duration_ms |-> <<>>]

\* runs that exist or that a task in flight is still to create
RunsClaimed ==
    Cardinality(DOMAIN runs)
    + BagCardinality([t \in {u \in BagToSet(tasks) : u.run_id = <<>>} |-> tasks[t]])

\* Scheduler._execute_job(deployment_id, trigger_type, func_name): with a
\* callback installed, asyncio.create_task starts it and _execute_job returns
\* at once (the task is not awaited); without one, a warning is logged
execute_job_awaits(ts, callback, deployment_id, trigger_type, func_name) ==
    IF callback # None
    THEN ts (+) SetToBag({
             [Task(deployment_id, trigger_type, func_name, "get_deployment",
                   <<>>, NoResult) EXCEPT !.awaited = TRUE]})
    ELSE ts

execute_job_twice(ts, callback, deployment_id, trigger_type, func_name) ==
    LET t == Task(deployment_id, trigger_type, func_name, "get_deployment",
                  <<>>, NoResult)
    IN IF callback # None THEN ts (+) SetToBag({t}) (+) SetToBag({t}) ELSE ts

execute_job_no_check(ts, callback, deployment_id, trigger_type, func_name) ==
    ts (+) SetToBag({
        Task(deployment_id, trigger_type, func_name, "get_deployment",
             <<>>, NoResult)})

execute_job(ts, callback, deployment_id, trigger_type, func_name) ==
    IF callback # None
    THEN ts (+) SetToBag({
             Task(deployment_id, trigger_type, func_name, "get_deployment",
                  <<>>, NoResult)})
    ELSE ts

\* add_job is called without max_instances: the job store runs at most one
\* instance of _execute_job per job, and skips a firing of a job whose
\* _execute_job has not returned
max_instances_reached(ts, job) ==
    \E t \in BagToSet(ts) :
        t.awaited /\ job_id(t.deployment_id, t.func_name) = job.id

\* a job fires: the scheduler calls _execute_job with the job's args
Fire(job) ==
    /\ RunsClaimed < MaxRuns
    /\ ~max_instances_reached(tasks, job)
    /\ tasks' = execute_job(tasks, run_callback, job.args[1], job.args[2],
                            job.args[3])
    /\ UNCHANGED <<deployments, runs, jobs, handlers, now, last, run_callback, execution, credentials, startup>>

ExecuteJob == \E job \in BagToSet(jobs) : Fire(job)

Replace(bag, old, new) == (bag (-) SetToBag({old})) (+) SetToBag({new})

\* execute_run: storage.get_deployment; if there is none,
\* "deployment_not_found" is logged and execute_run returns
RunGetDeployment_no_return(t) ==
    /\ t.pc = "get_deployment"
    /\ tasks' = Replace(tasks, t, [t EXCEPT !.pc = "create_run"])
    /\ UNCHANGED <<deployments, runs, jobs, handlers, now, last, run_callback, execution, credentials, startup>>

RunGetDeployment(t) ==
    /\ t.pc = "get_deployment"
    /\ IF get_deployment(deployments, t.deployment_id) = NoDeployment
       THEN /\ tasks' = tasks (-) SetToBag({t})
            /\ last' = [NoCall EXCEPT !.op = "deployment_not_found",
                                      !.id = t.deployment_id]
       ELSE /\ tasks' = Replace(tasks, t, [t EXCEPT !.pc = "create_run"])
            /\ UNCHANGED last
    /\ UNCHANGED <<deployments, runs, jobs, handlers, now, run_callback, execution, credentials, startup>>

\* execute_run: storage.create_run, under a fresh run id
RunCreate(t) ==
    /\ t.pc = "create_run"
    /\ \E run_id \in RunIds \ DOMAIN runs :
          /\ runs' = create_run(runs, run_id, t.deployment_id, t.trigger_type,
                                t.func_name)
          /\ tasks' = Replace(tasks, t, [t EXCEPT !.pc = "update_run_started",
                                                  !.run_id = run_id])
    /\ UNCHANGED <<deployments, jobs, handlers, now, last, run_callback, execution, credentials, startup>>

\* execute_run: storage.update_run_started
RunStarted(t) ==
    /\ t.pc = "update_run_started"
    /\ runs' = update_run_started(runs, t.run_id, now)
    /\ tasks' = Replace(tasks, t, [t EXCEPT !.pc = "execute"])
    /\ UNCHANGED <<deployments, jobs, handlers, now, last, run_callback, execution, credentials, startup>>

\* execute_run: the credentials are loaded with get_env_for_execution and
\* executor.execute is called with them, whatever they are; it returns a
\* result, or raises (the wrapper script cannot be written) and the
\* exception, which execute_run does not catch, ends the task
RunExecute(t) ==
    /\ t.pc = "execute"
    /\ \/ \E result \in ExecutionResults :
             tasks' = Replace(tasks, t, [t EXCEPT !.pc = "update_run_completed",
                                                 !.result = result])
       \/ tasks' = tasks (-) SetToBag({t})
    /\ UNCHANGED <<deployments, runs, jobs, handlers, now, last, run_callback, execution, credentials, startup>>

\* execute_run: storage.update_run_completed; the task ends
RunCompleted(t) ==
    /\ t.pc = "update_run_completed"
    /\ runs' = update_run_completed(runs, t.run_id, now, t.result)
    /\ tasks' = tasks (-) SetToBag({t})
    /\ UNCHANGED <<deployments, jobs, handlers, now, last, run_callback, execution, credentials, startup>>

TaskStep ==
    \E t \in BagToSet(tasks) :
        \/ RunGetDeployment(t)
        \/ RunCreate(t)
        \/ RunStarted(t)
        \/ RunExecute(t)
        \/ RunCompleted(t)

\* requests with a trigger that validate_triggers rejects: "invalid cron",
\* no cron beside a valid trigger, "60 * * * *" beside a valid trigger
RejectedInputs ==
    { <<Trigger("schedule", <<"g">>, CronTwoFields, "UTC")>>,
      <<Trigger("schedule", <<"f">>, CronDaily, "UTC"),
        Trigger("schedule", <<"g">>, NoCron, "UTC")>>,
      <<Trigger("schedule", <<"f">>, CronDaily, "UTC"),
        Trigger("schedule", <<"g">>,
                Cron(<<Num(MaxCronValue), Star, Star, Star, Star>>), "UTC")>> }

DeployInputs == SeqsUpTo(DeployTriggers, MaxTriggers) \cup RejectedInputs

Operations == {"pause", "resume", "delete"}

\* the steps of the handlers in flight
HandlerStep ==
    \E h \in BagToSet(handlers) :
        \/ DeployRegister(h)
        \/ CallScheduler(h)
        \/ UpdateStatus(h)

(***************************************************************************)
(* The application: requests are accepted while others are in flight, and  *)
(* jobs fire while requests are served.                                     *)
(***************************************************************************)
Next ==
    \/ \E triggers \in DeployInputs : DeployCreate(triggers)
    \/ \E op \in Operations, id \in DeploymentIds : GetDeployment(op, id)
    \/ HandlerStep
    \/ ExecuteJob
    \/ TaskStep

Spec == Init /\ [][Next]_vars

(***************************************************************************)
(* Requests served one at a time: a request is accepted only when no       *)
(* handler is in flight.                                                    *)
(***************************************************************************)
SequentialNext ==
    \/ /\ handlers = EmptyBag
       /\ \E triggers \in DeployInputs : DeployCreate(triggers)
    \/ /\ handlers = EmptyBag
       /\ \E op \in Operations, id \in DeploymentIds : GetDeployment(op, id)
    \/ HandlerStep

SequentialSpec == Init /\ [][SequentialNext]_vars

(***************************************************************************)
(* Pause, resume and delete requests accepted while others are in flight;  *)
(* a deploy request is served alone.                                        *)
(***************************************************************************)
LifecycleNext ==
    \/ /\ handlers = EmptyBag
       /\ \E triggers \in DeployInputs : DeployCreate(triggers)
    \/ /\ \A h \in BagToSet(handlers) : h.op # "deploy"
       /\ \E op \in Operations, id \in DeploymentIds : GetDeployment(op, id)
    \/ HandlerStep

LifecycleSpec == Init /\ [][LifecycleNext]_vars

(***************************************************************************)
(* Process restart.  The process shuts down once the requests in flight    *)
(* are served; the next process starts with a new Scheduler, installs the  *)
(* callback and registers the active deployments (lifespan).                *)
(***************************************************************************)
RECURSIVE register_all(_, _)
register_all(js, active_deployments) ==
    IF active_deployments = {} THEN js
    ELSE LET deployment == CHOOSE d \in active_deployments : TRUE
         IN register_all(register_deployment(js, deployment).jobs,
                         active_deployments \ {deployment})

lifespan ==
    /\ handlers = EmptyBag
    /\ jobs' = register_all(EmptyBag, get_active_deployments(deployments))
    /\ run_callback' = "execute_run"
    /\ tasks' = EmptyBag
    /\ last' = [NoCall EXCEPT !.op = "startup", !.before = jobs]
    /\ UNCHANGED <<deployments, runs, handlers, now, execution, credentials, startup>>

RestartNext ==
    \/ SequentialNext
    \/ lifespan

RestartSpec == Init /\ [][RestartNext]_vars

(***************************************************************************)
(* Executions: deployments are deployed one at a time, their jobs fire and *)
(* the fire callbacks run concurrently.                                     *)
(***************************************************************************)
ExecutionInputs ==
    { <<Trigger("schedule", <<"f">>, CronDaily, "UTC"),
        Trigger("schedule", <<"g">>, CronEvery5, "UTC")>> }

ExecutionNext ==
    \/ /\ handlers = EmptyBag
       /\ \E triggers \in ExecutionInputs : DeployCreate(triggers)
    \/ \E h \in BagToSet(handlers) : DeployRegister(h)
    \/ ExecuteJob
    \/ TaskStep

ExecutionSpec == Init /\ [][ExecutionNext]_vars

(***************************************************************************)
(* Properties of the deployment lifecycle.                                 *)
(***************************************************************************)
\* the jobs that fire for a deployment: those whose args name it
JobsOf(js, deployment_id) ==
    LET mine == {j \in BagToSet(js) : j.args[1] = deployment_id}
    IN [j \in mine |-> js[j]]

\* the schedule triggers register_deployment is expected to skip
Skipped(t) ==
    \/ ~t.cron.set
    \/ Len(t.cron.parts) # 5
    \/ ~CronTrigger(t.cron.parts, t.timezone)

KeptTriggers(ts) ==
    {i \in 1..Len(ts) : ts[i].type = "schedule" /\ ~Skipped(ts[i])}

HasLiveJob(deployment_id) ==
    \E j \in BagToSet(jobs) : startswith(j.id, deployment_id \o <<":">>)

\* C1: after any sequence of completed deploy, pause, resume and delete
\* requests, no deployment whose status is paused, deleted or error has a
\* live job.  Checked under SequentialSpec.
C1_NoJobUnlessActive ==
    handlers = EmptyBag =>
        \A d \in DOMAIN deployments :
            deployments[d].status \in {"paused", "deleted", "error"}
                => ~HasLiveJob(d)

C1_Witness ==
    /\ handlers = EmptyBag
    /\ last.op = "pause" /\ last.code = 200
    /\ deployments[last.id].status = "paused"
    /\ KeptTriggers(deployments[last.id].triggers) # {}

C3_DeletedIsTerminal ==
    [][\A d \in DOMAIN deployments :
          deployments[d].status = "deleted" => deployments'[d].status = "deleted"]_vars

\* C4: after any sequence of completed deploy, pause, resume and delete
\* requests, every schedule trigger of every active deployment has the live
\* job deployment_id:func.  Checked under SequentialSpec.
C4_ActiveTriggersHaveJobs ==
    handlers = EmptyBag =>
        \A d \in DOMAIN deployments :
            deployments[d].status = "active" =>
                \A i \in 1..Len(deployments[d].triggers) :
                    deployments[d].triggers[i].type = "schedule" =>
                        job_id(d, deployments[d].triggers[i].func) \in JobIds(jobs)

\* C16: for a deployment with one valid schedule trigger: the deploy
\* response has triggers_registered 1 and a next run time; after pause the
\* deployment has no next run time; after resume the response has a next
\* run time and the trigger's job id has exactly one live job, however many
\* pause / resume cycles came before.  Checked under SequentialSpec.
C16_PauseResumeCycle ==
    (handlers = EmptyBag /\ last.code = 200 /\ last.id \in DOMAIN deployments) =>
        LET d == last.id
            ts == deployments[d].triggers
            n == get_next_run_time(jobs, d, now)
            live == {j \in BagToSet(jobs) : j.id = job_id(d, ts[1].func)}
        IN (Len(ts) = 1 /\ KeptTriggers(ts) = {1}) =>
              /\ last.op = "deploy" =>
                    /\ last.ret = 1
                    /\ last.next_run # <<>> /\ last.next_run = n
                    /\ n[1] > now
              /\ last.op = "pause" => n = <<>>
              /\ last.op = "resume" =>
                    /\ last.next_run # <<>> /\ last.next_run = n
                    /\ n[1] > now
                    /\ BagCardinality([j \in live |-> jobs[j]]) = 1
                    /\ JobCount(JobsOf(jobs, d)) = 1

C16_Witness ==
    /\ handlers = EmptyBag
    /\ last.op = "resume" /\ last.code = 200
    /\ last.next_run # <<>>
    /\ Len(deployments[last.id].triggers) = 1
    /\ KeptTriggers(deployments[last.id].triggers) = {1}
    /\ job_id(last.id, deployments[last.id].triggers[1].func) \in JobIds(jobs)

RejectedTrigger(t) ==
    t.type = "schedule"
      /\ (~t.cron.set \/ validate_cron_expression(t.cron) # NoCronError)

\* C29: a deploy request with a schedule trigger whose cron expression is
\* missing or fails the validation is answered 400 with
\* MISSING_CRON_EXPRESSION or INVALID_CRON_EXPRESSION and changes nothing:
\* the answer leaves the deployments and the jobs as they were, so that no
\* stored deployment ever holds such a trigger, whatever the other triggers
\* of the request.
C29_InvalidCronRejected ==
    [][/\ (last' # last /\ last'.op = "deploy" /\ last'.code = 400) =>
             /\ deployments' = deployments
             /\ jobs' = jobs
             /\ handlers' = handlers
             /\ \E i \in 1..Len(last'.triggers) : RejectedTrigger(last'.triggers[i])
             /\ Len(last'.errors) =
                  Cardinality({i \in 1..Len(last'.triggers) :
                                  RejectedTrigger(last'.triggers[i])})
             /\ \A i \in 1..Len(last'.errors) :
                   last'.errors[i] \in {"MISSING_CRON_EXPRESSION",
                                        "INVALID_CRON_EXPRESSION"}
       /\ \A d \in DOMAIN deployments' :
             \A i \in 1..Len(deployments'[d].triggers) :
                ~RejectedTrigger(deployments'[d].triggers[i])
       /\ \A h \in BagToSet(handlers') :
             h.op = "deploy" =>
                \A i \in 1..Len(h.dep.triggers) : ~RejectedTrigger(h.dep.triggers[i])]_vars

\* a request with a valid trigger and a trigger without cron expression was
\* answered 400
C29_Witness ==
    /\ last.op = "deploy" /\ last.code = 400
    /\ Len(last.triggers) = 2
    /\ ~RejectedTrigger(last.triggers[1])
    /\ RejectedTrigger(last.triggers[2])
    /\ last.errors = <<"MISSING_CRON_EXPRESSION">>

(***************************************************************************)
(* Properties of the runs the fire callback creates, checked under         *)
(* ExecutionSpec.                                                           *)
(***************************************************************************)
Monotonic(a, b) ==
    \/ a = b
    \/ a = "pending" /\ b \in {"running"} \cup Terminal
    \/ a = "running" /\ b \in Terminal

\* C5: the status of every run moves along pending -> running -> terminal
\* only, a new run is pending, and no run leaves a terminal status, however
\* many executions are in flight.
C5_RunMonotonicity ==
    [][/\ \A r \in DOMAIN runs :
             r \in DOMAIN runs' /\ Monotonic(runs[r].status, runs'[r].status)
       /\ \A r \in DOMAIN runs' \ DOMAIN runs : runs'[r].status = "pending"]_vars

C5_Witness ==
    \E r1, r2 \in DOMAIN runs :
        /\ runs[r1].status \in Terminal
        /\ runs[r2].status = "running"
        /\ BagCardinality(tasks) >= 1

SchedulerIds == {generate_id("d", 1), generate_id("d", 2)}

SchedulerDeployments ==
    {Deployment(id, "active", ts) :
        id \in SchedulerIds, ts \in SeqsUpTo(SchedulerTriggers, MaxSchedulerTriggers)}

\* A caller registers a deployment, and may register the same deployment a
\* second time while it still holds the first result.
CallRegister(deployment) ==
    LET r == register_deployment(jobs, deployment)
    IN /\ \/ last.op = None
          \/ last.op = "register" /\ last.dep = deployment /\ ~last.again
       /\ jobs' = r.jobs
       /\ last' = [NoCall EXCEPT
                      !.op = "register", !.dep = deployment, !.id = deployment.id,
                      !.before = jobs, !.ret = r.registered, !.raised = r.raised,
                      !.again = last.op = "register" /\ last.dep = deployment]
       /\ UNCHANGED <<deployments, runs, handlers, tasks, now, run_callback, execution, credentials, startup>>

CallUnregister(deployment_id) ==
    LET r == unregister_deployment(jobs, deployment_id)
    IN /\ last.op = None
       /\ jobs' = r.jobs
       /\ last' = [NoCall EXCEPT
                      !.op = "unregister", !.id = deployment_id, !.before = jobs,
                      !.ret = r.removed,
                      !.next_run = get_next_run_time(r.jobs, deployment_id, now)]
       /\ UNCHANGED <<deployments, runs, handlers, tasks, now, run_callback, execution, credentials, startup>>

\* The caller drops the result of its last call.
CallReturn ==
    /\ last.op \in {"register", "unregister"}
    /\ last' = NoCall
    /\ UNCHANGED <<deployments, runs, jobs, handlers, tasks, now, run_callback, execution, credentials, startup>>

SchedulerNext ==
    \/ \E d \in SchedulerDeployments : CallRegister(d)
    \/ \E id \in SchedulerIds : CallUnregister(id)
    \/ CallReturn

SchedulerSpec == Init /\ [][SchedulerNext]_vars

(***************************************************************************)
(* Firing on a Scheduler used on its own: the Scheduler is constructed     *)
(* without a callback, set_run_callback installs one, deployments are      *)
(* registered and their jobs fire.  No deployment is stored, so a callback *)
(* ends when its get_deployment finds none.                                 *)
(***************************************************************************)
FiringInit ==
    /\ deployments = <<>>
    /\ runs = <<>>
    /\ jobs = EmptyBag
    /\ handlers = EmptyBag
    /\ tasks = EmptyBag
    /\ now = 0
    /\ last = NoCall
    /\ run_callback = None
    /\ execution = NoExecution
    /\ credentials = <<>>
    /\ startup = Len(lifespan_steps)

\* Scheduler.set_run_callback
SetRunCallback(callback) ==
    /\ run_callback' = callback
    /\ UNCHANGED <<deployments, runs, jobs, handlers, tasks, now, last, execution, credentials, startup>>

FiringDeployments ==
    {Deployment(id, "active", ts) :
        id \in SchedulerIds,
        ts \in ExecutionInputs
                \cup {<<Trigger("schedule", <<"f">>, CronEvery5, "UTC")>>}}

FiringRegister(deployment) ==
    /\ jobs' = register_deployment(jobs, deployment).jobs
    /\ UNCHANGED <<deployments, runs, handlers, tasks, now, last, run_callback, execution, credentials, startup>>

\* a job fires; the firing and the tasks in flight before it are recorded
CallExecuteJob(job) ==
    /\ RunsClaimed < MaxRuns
    /\ ~max_instances_reached(tasks, job)
    /\ tasks' = execute_job(tasks, run_callback, job.args[1], job.args[2],
                            job.args[3])
    /\ last' = [NoCall EXCEPT !.op = "fire", !.job = job, !.before = jobs,
                              !.tasks = tasks]
    /\ UNCHANGED <<deployments, runs, jobs, handlers, now, run_callback, execution, credentials, startup>>

FiringNext ==
    \/ SetRunCallback("execute_run")
    \/ \E d \in FiringDeployments : FiringRegister(d)
    \/ \E job \in BagToSet(jobs) : CallExecuteJob(job)
    \/ \E t \in BagToSet(tasks) : RunGetDeployment(t)

FiringSpec == FiringInit /\ [][FiringNext]_vars

\* C13: a firing while no callback is installed is dropped: it starts no
\* callback, creates no run, raises nothing and leaves the job registered;
\* and it is not retried: a callback is started only by a firing that finds
\* a callback installed, and installing the callback starts none.
C13_FiringDroppedWithoutCallback ==
    [][/\ run_callback = None =>
             /\ tasks' = tasks
             /\ runs' = runs
             /\ (last'.op = "fire" /\ last' # last) =>
                    /\ jobs' = jobs
                    /\ last'.job \in BagToSet(jobs')
                    /\ ~last'.raised
       /\ BagCardinality(tasks') > BagCardinality(tasks) =>
             /\ run_callback # None
             /\ last'.op = "fire" /\ last'.tasks = tasks]_vars

C13_Witness ==
    /\ run_callback = None
    /\ last.op = "fire"
    /\ last.job \in BagToSet(jobs)
    /\ tasks = EmptyBag /\ runs = <<>>

\* C14: with a callback installed, a firing starts the callback exactly
\* once, with the arguments (deployment_id, "schedule", func_name) of the
\* job that fired.
C14_CallbackOncePerFiring ==
    [][(/\ run_callback # None
        /\ \/ last'.op = "fire" /\ last' # last
           \/ BagCardinality(tasks') > BagCardinality(tasks))
       => /\ last'.op = "fire"
          /\ last'.job \in BagToSet(jobs)
          /\ \E d \in SchedulerIds, f \in {<<"f">>, <<"g">>} :
                /\ last'.job.id = job_id(d, f)
                /\ tasks' = tasks (+) SetToBag({
                       Task(d, "schedule", f, "get_deployment", <<>>, NoResult)})]_vars

C14_Witness ==
    /\ run_callback # None
    /\ last.op = "fire"
    /\ last.tasks # EmptyBag
    /\ \E t \in BagToSet(tasks) :
          /\ job_id(t.deployment_id, t.func_name) = last.job.id
          /\ tasks[t] = 1
          /\ BagCardinality(tasks) = BagCardinality(last.tasks) + 1

(***************************************************************************)
(* The run ledger used on its own: create_run, update_run_started and      *)
(* update_run_completed called by any client, while time passes.            *)
(***************************************************************************)
LedgerRunIds == {generate_id("r", i) : i \in 1..MaxLedgerRuns}

LedgerCreateRun ==
    \E run_id \in LedgerRunIds \ DOMAIN runs, d \in SchedulerIds :
        /\ runs' = create_run(runs, run_id, d, "schedule", <<"f">>)
        /\ UNCHANGED <<deployments, jobs, handlers, tasks, now, last, run_callback, execution, credentials, startup>>

LedgerRunStarted ==
    \E run_id \in LedgerRunIds :
        /\ runs' = update_run_started(runs, run_id, now)
        /\ UNCHANGED <<deployments, jobs, handlers, tasks, now, last, run_callback, execution, credentials, startup>>

LedgerRunCompleted ==
    \E run_id \in LedgerRunIds, result \in ExecutionResults :
        /\ runs' = update_run_completed(runs, run_id, now, result)
        /\ UNCHANGED <<deployments, jobs, handlers, tasks, now, last, run_callback, execution, credentials, startup>>

Tick ==
    /\ now < MaxTime
    /\ now' = now + 1
    /\ UNCHANGED <<deployments, runs, jobs, handlers, tasks, last, run_callback, execution, credentials, startup>>

LedgerNext ==
    \/ LedgerCreateRun
    \/ LedgerRunStarted
    \/ LedgerRunCompleted
    \/ Tick

LedgerSpec == Init /\ [][LedgerNext]_vars

(***************************************************************************)
(* The Executor used on its own: one call of execute at a time, from the   *)
(* call to its return, while time passes.  The command line is             *)
(* "uv run python <script>": process is the launcher; the interpreter that *)
(* runs the script is the launcher itself if the launcher replaces its     *)
(* image, a child of the launcher otherwise.                                *)
(***************************************************************************)
EnvArguments ==
    { EmptyEnv,
      [k \in {"TEST_VAR"} |-> "hello123"],
      [k \in {"HOME"} |-> "/home/script"] }

OsEnvirons ==
    { EmptyEnv,
      [k \in {"HOME"} |-> "/root"],
      [k \in {"HOME", "SUPABASE_SERVICE_KEY"} |->
          IF k = "HOME" THEN "/root" ELSE "secret"] }

DotenvVars == { EmptyEnv, [k \in {"OPENAI_API_KEY"} |-> "sk"] }

Behaviours == {"returns", "raises", "sys_exit_2", "signal_9", "sleeps"}

\* execute, up to the call of create_subprocess_exec: the wrapper script is
\* written to a temporary file, before the try statement; then the
\* environment of the child is prepared
ExecuteCall(env, os_environ, dotenv, timeout_seconds, behaviour, written) ==
    /\ execution.pc = "idle"
    /\ execution' =
          IF written
          THEN [NoExecution EXCEPT !.pc = "launch", !.env = env,
                   !.os_environ = os_environ, !.dotenv = dotenv,
                   !.timeout_seconds = timeout_seconds,
                   !.behaviour = behaviour, !.script_path = TRUE]
          ELSE [NoExecution EXCEPT !.pc = "raised", !.env = env,
                   !.os_environ = os_environ, !.dotenv = dotenv,
                   !.timeout_seconds = timeout_seconds,
                   !.behaviour = behaviour, !.exception = <<"OSError">>]
    /\ UNCHANGED <<deployments, runs, jobs, handlers, tasks, now, last, run_callback, credentials, startup>>

\* create_subprocess_exec: the child is started with the prepared
\* environment, or the call raises and the error result is returned
CreateSubprocess(started, launcher_execs) ==
    /\ execution.pc = "launch"
    /\ execution' =
          IF started
          THEN [execution EXCEPT
                   !.pc = "wait", !.process = "running",
                   !.script_process = "running",
                   !.launcher_execs = launcher_execs,
                   !.child_env = child_environment(
                       process_env(execution.os_environ, execution.dotenv,
                                   execution.env),
                       execution.os_environ),
                   !.started = now]
          ELSE [execution EXCEPT
                   !.pc = "returned", !.script_path = unlink(execution.script_path),
                   !.result = error_result("No such file or directory: uv")]
    /\ UNCHANGED <<deployments, runs, jobs, handlers, tasks, now, last, run_callback, credentials, startup>>

\* the script ends before the timeout, and the launcher with its exit code
ScriptExits ==
    /\ execution.pc = "wait"
    /\ execution.process = "running"
    /\ execution.behaviour # "sleeps"
    /\ now - execution.started < execution.timeout_seconds
    /\ execution' = [execution EXCEPT
           !.process = "exited", !.script_process = "exited",
           !.returncode = <<wrapper_exit_code(execution.behaviour)>>]
    /\ UNCHANGED <<deployments, runs, jobs, handlers, tasks, now, last, run_callback, credentials, startup>>

\* wait_for(process.communicate()) returns: the result by the exit code
CommunicateReturns ==
    /\ execution.pc = "wait"
    /\ execution.process = "exited"
    /\ execution' = [execution EXCEPT
           !.pc = "returned", !.reaped = TRUE, !.script_path = unlink(execution.script_path),
           !.result = completed_result(
               execution.returncode[1],
               IF execution.behaviour = "returns" THEN "done" ELSE "",
               IF execution.behaviour = "raises" THEN "Traceback" ELSE "")]
    /\ UNCHANGED <<deployments, runs, jobs, handlers, tasks, now, last, run_callback, credentials, startup>>

\* wait_for raises TimeoutError: process.kill() signals the launcher
TimeoutKill ==
    /\ execution.pc = "wait"
    /\ execution.process = "running"
    /\ now - execution.started >= execution.timeout_seconds
    /\ execution' = [execution EXCEPT
           !.pc = "reap", !.process = "killed",
           !.script_process = IF execution.launcher_execs
                              THEN "killed" ELSE "running"]
    /\ UNCHANGED <<deployments, runs, jobs, handlers, tasks, now, last, run_callback, credentials, startup>>

\* process.wait() returns: the launcher is reaped, the timeout result is
\* returned
WaitReturns ==
    /\ execution.pc = "reap"
    /\ execution' = [execution EXCEPT
           !.pc = "returned", !.reaped = TRUE, !.script_path = unlink(execution.script_path),
           !.result = timeout_result(execution.timeout_seconds)]
    /\ UNCHANGED <<deployments, runs, jobs, handlers, tasks, now, last, run_callback, credentials, startup>>

\* the caller has the result, or the exception
ExecuteReturn ==
    /\ execution.pc \in {"returned", "raised"}
    /\ execution' = NoExecution
    /\ UNCHANGED <<deployments, runs, jobs, handlers, tasks, now, last, run_callback, credentials, startup>>

ExecutorNext ==
    \/ \E env \in EnvArguments, os_environ \in OsEnvirons, dotenv \in DotenvVars,
          timeout_seconds \in 1..MaxTime, behaviour \in Behaviours,
          written \in BOOLEAN :
          ExecuteCall(env, os_environ, dotenv, timeout_seconds, behaviour, written)
    \/ \E started \in BOOLEAN, launcher_execs \in BOOLEAN :
          CreateSubprocess(started, launcher_execs)
    \/ ScriptExits
    \/ CommunicateReturns
    \/ TimeoutKill
    \/ WaitReturns
    \/ ExecuteReturn
    \/ Tick

ExecutorSpec == Init /\ [][ExecutorNext]_vars

(***************************************************************************)
(* Properties of the Executor, checked under ExecutorSpec.                 *)
(***************************************************************************)
\* C17: execute never raises to its caller; a failure to launch the child
\* gives status failed, no exit code and an error message that carries the
\* text of the exception.
C17_NeverRaises ==
    /\ execution.pc # "raised"
    /\ (execution.pc = "returned" /\ execution.process = None) =>
          /\ execution.result.status = "failed"
          /\ execution.result.exit_code = <<>>
          /\ execution.result.error_message # <<>>
          /\ execution.result.error_message[1].e # <<>>

\* C18: when the child exits before the timeout, the status is success if
\* and only if the exit code is 0; a non-zero exit code N gives status
\* failed, exit_code N and the message "Script exited with code N"; a
\* script function that raises gives exit code 1 and status failed.
C18_StatusFollowsExitCode ==
    (execution.pc = "returned" /\ execution.returncode # <<>>) =>
        LET N == execution.returncode[1]
            result == execution.result
        IN /\ result.status = "success" <=> N = 0
           /\ result.exit_code = <<N>>
           /\ N # 0 =>
                 /\ result.status = "failed"
                 /\ result.error_message =
                       <<Message("Script exited with code {exit_code}", <<N>>, <<>>)>>
           /\ execution.behaviour = "raises" =>
                 N = 1 /\ result.status = "failed"

C18_Witness ==
    /\ execution.pc = "returned"
    /\ execution.behaviour = "raises"
    /\ execution.returncode = <<1>>
    /\ execution.result.status = "failed"

C19_TimeoutKillsScript ==
    /\ (execution.pc = "returned" /\ execution.process = "killed") =>
          /\ execution.result.status = "timeout"
          /\ execution.result.error_message # <<>>
          /\ execution.result.error_message[1].n = <<execution.timeout_seconds>>
          /\ execution.reaped
          /\ execution.script_process # "running"
    /\ execution.result.status = "timeout" => execution.process = "killed"

\* C20: the environment of the child process is exactly the env map passed
\* to execute, whatever the environment of the orchestrator.
C20_ChildEnvIsEnv ==
    execution.process # None => execution.child_env = execution.env

(***************************************************************************)
(* Properties of the run ledger, checked under LedgerSpec.                 *)
(***************************************************************************)
\* C6: a run whose status is terminal keeps its status, completed_at,
\* exit_code, stdout, stderr and error_message under every further
\* update_run_started and update_run_completed.
C6_TerminalNeverOverwritten ==
    [][\A r \in DOMAIN runs :
          runs[r].status \in Terminal =>
              /\ runs'[r].status = runs[r].status
              /\ runs'[r].completed_at = runs[r].completed_at
              /\ runs'[r].exit_code = runs[r].exit_code
              /\ runs'[r].stdout = runs[r].stdout
              /\ runs'[r].stderr = runs[r].stderr
              /\ runs'[r].error_message = runs[r].error_message]_vars

\* C26: duration_ms is set only on a run whose started_at and completed_at
\* are both set; completing a run that was never started sets completed_at
\* and a terminal status and leaves duration_ms null.
C26_DurationNeedsBothTimestamps ==
    [][\A r \in DOMAIN runs' :
          /\ runs'[r].duration_ms # <<>> =>
                runs'[r].started_at # <<>> /\ runs'[r].completed_at # <<>>
          /\ (r \in DOMAIN runs /\ runs'[r] # runs[r]
                 /\ runs'[r].started_at = <<>>) =>
                /\ runs'[r].completed_at = <<now>>
                /\ runs'[r].status \in Terminal
                /\ runs'[r].duration_ms = <<>>]_vars

\* a run completed without having been started
C26_Witness ==
    \E r \in DOMAIN runs :
        /\ runs[r].started_at = <<>>
        /\ runs[r].completed_at # <<>>
        /\ runs[r].status \in Terminal
        /\ runs[r].duration_ms = <<>>

(***************************************************************************)
(* Properties of the Scheduler, checked under SchedulerSpec.               *)
(***************************************************************************)
\* C7: registering the same deployment a second time leaves the set of job
\* ids and the job count unchanged, and no two live jobs ever share a job id.
C7_IdempotentReRegistration ==
    /\ \A j1 \in BagToSet(jobs) :
          /\ jobs[j1] = 1
          /\ \A j2 \in BagToSet(jobs) : j1.id = j2.id => j1 = j2
    /\ (last.op = "register" /\ last.again) =>
          /\ JobIds(jobs) = JobIds(last.before)
          /\ JobCount(jobs) = JobCount(last.before)

C7_Witness ==
    /\ last.op = "register" /\ last.again
    /\ last.ret = 2
    /\ JobCount(jobs) >= 2

\* C8: register_deployment never raises; a schedule trigger with a missing
\* cron string, a cron string that has not 5 fields, or one the cron parser
\* rejects is skipped, every other schedule trigger has its job installed,
\* and the returned count is the number of schedule triggers not skipped.
C8_PartialRegistration ==
    last.op = "register" =>
        LET ts == last.dep.triggers
        IN /\ ~last.raised
           /\ last.ret = Cardinality(KeptTriggers(ts))
           /\ \A i \in KeptTriggers(ts) :
                 job_id(last.id, ts[i].func) \in JobIds(jobs)
           /\ \A i \in 1..Len(ts) :
                 (ts[i].type = "schedule" /\ Skipped(ts[i])
                  /\ job_id(last.id, ts[i].func) \notin JobIds(last.before)
                  /\ \A k \in KeptTriggers(ts) : ts[k].func # ts[i].func)
                 => job_id(last.id, ts[i].func) \notin JobIds(jobs)

C8_Witness ==
    /\ last.op = "register"
    /\ Len(last.dep.triggers) = 2
    /\ last.dep.triggers[1].type = "schedule"
    /\ last.dep.triggers[1].cron.set
    /\ Len(last.dep.triggers[1].cron.parts) = 5
    /\ Skipped(last.dep.triggers[1])
    /\ KeptTriggers(last.dep.triggers) = {2}
    /\ last.ret = 1

\* C9: after register_deployment returns n on a Scheduler holding no job of
\* that deployment, the deployment has exactly n live jobs.
C9_OneJobPerTrigger ==
    (last.op = "register" /\ JobsOf(last.before, last.id) = EmptyBag) =>
        Cardinality({j \in BagToSet(jobs) : job_matches(j, last.id)}) = last.ret

\* C10: unregister_deployment(A) leaves the jobs of every other deployment
\* B, and their count, unchanged.
C10_UnregisterPrefixIsolation ==
    last.op = "unregister" =>
        \A B \in SchedulerIds \ {last.id} :
            JobsOf(jobs, B) = JobsOf(last.before, B)

C10_Witness ==
    /\ last.op = "unregister"
    /\ last.id = generate_id("d", 1)
    /\ last.ret >= 1
    /\ JobsOf(jobs, generate_id("d", 2)) # EmptyBag

\* C11: unregister_deployment removes every live job whose id starts with
\* deployment_id + ":" and no other, returns the number of jobs it removed,
\* returns 0 and changes nothing when the deployment has no job, and
\* get_next_run_time of the deployment is none afterwards.
C11_UnregisterRemovesAll ==
    last.op = "unregister" =>
        LET prefix == last.id \o <<":">>
            mine == {j \in BagToSet(last.before) : startswith(j.id, prefix)}
            rest == BagToSet(last.before) \ mine
        IN /\ \A j \in BagToSet(jobs) : ~startswith(j.id, prefix)
           /\ jobs = [j \in rest |-> last.before[j]]
           /\ last.ret = BagCardinality([j \in mine |-> last.before[j]])
           /\ mine = {} => (last.ret = 0 /\ jobs = last.before)
           /\ last.next_run = <<>>
           /\ get_next_run_time(jobs, last.id, now) = <<>>

C11_Witness ==
    /\ last.op = "unregister"
    /\ last.ret = 2
    /\ JobCount(last.before) > 2
    /\ JobCount(jobs) = JobCount(last.before) - 2

\* C32: register_deployment does nothing for a trigger that is not a
\* schedule trigger: an email, webhook or manual trigger installs no job and
\* is not counted, so a deployment with no schedule trigger gets 0 and an
\* unchanged job set, and every job installed comes from a schedule trigger.
C32_NonScheduleTriggersIgnored ==
    last.op = "register" =>
        LET ts == last.dep.triggers
            schedule == {i \in 1..Len(ts) : ts[i].type = "schedule"}
        IN /\ last.ret <= Cardinality(schedule)
           /\ schedule = {} => (last.ret = 0 /\ jobs = last.before)
           /\ \A j \in BagToSet(jobs) :
                 \/ j \in BagToSet(last.before) /\ jobs[j] = last.before[j]
                 \/ \E i \in schedule :
                       /\ j.id = job_id(last.id, ts[i].func)
                       /\ j.cron = ts[i].cron
           /\ \A j \in BagToSet(last.before) :
                 \/ j \in BagToSet(jobs)
                 \/ \E i \in schedule : j.id = job_id(last.id, ts[i].func)

C32_Witness ==
    /\ last.op = "register"
    /\ Len(last.dep.triggers) = 2
    /\ last.dep.triggers[1].type = "webhook"
    /\ last.dep.triggers[1].cron = CronEvery5
    /\ last.dep.triggers[2].type = "email"
    /\ last.ret = 0
    /\ jobs # EmptyBag
    /\ jobs = last.before

(***************************************************************************)
(* validate_cron_expression used on its own: one call with any cron string *)
(* of the sample.  The sample holds the strings of five fields with one    *)
(* field of any kind among fields "*" and "1", the strings of five fields  *)
(* with two rejected fields, and strings of every other length.            *)
(***************************************************************************)
CronFields ==
    {Star, StepWord, Word}
      \cup {Step(n) : n \in -1..MaxCronValue}
      \cup {Num(n) : n \in -1..MaxCronValue}

RejectedFields == {Step(0), StepWord, Num(-1), Num(MaxCronValue)}

CronStrings ==
    {Cron([rest EXCEPT ![p] = f]) :
         p \in 1..5, f \in CronFields, rest \in [1..5 -> {Star, Num(1)}]}
      \cup {Cron([i \in 1..5 |-> IF i = p THEN f ELSE IF i = q THEN g ELSE Star]) :
               p \in 1..5, q \in 1..5, f \in RejectedFields, g \in RejectedFields}
      \cup {Cron([i \in 1..n |-> IF i = 1 THEN f ELSE Star]) :
               n \in 0..MaxCronFields, f \in CronFields}

ValidateCron(cron) ==
    /\ last' = [NoCall EXCEPT !.op = "validate_cron_expression",
                              !.cron = cron,
                              !.error = validate_cron_expression(cron)]
    /\ UNCHANGED <<deployments, runs, jobs, handlers, tasks, now, run_callback, execution, credentials, startup>>

CronNext == last = NoCall /\ \E cron \in CronStrings : ValidateCron(cron)

CronSpec == Init /\ [][CronNext]_vars

\* C30: validate_cron_expression accepts a cron string only if it has
\* exactly 5 fields; any other number of fields is rejected with the
\* field-count message, which is not the out-of-range message; in a string
\* of 5 fields "*" is never the reason of a rejection, "*/n" is accepted only
\* for an integer n >= 1 and an integer only within the bounds of its
\* position: minute 0-59, hour 0-23, day 1-31, month 1-12, weekday 0-6.
C30_CronValidation ==
    last.op = "validate_cron_expression" =>
      LET parts == last.cron.parts
          accepted == last.error = NoCronError
          lo == <<0, 0, 1, 1, 0>>
          hi == <<59, 23, 31, 12, 6>>
      IN /\ accepted => Len(parts) = 5
         /\ Len(parts) # 5 =>
              /\ last.error.fmt = "Cron expression must have 5 parts, got {}"
              /\ last.error.value = Num(Len(parts))
              /\ last.error.fmt # "Invalid {} value: {} (must be {}-{})"
         /\ Len(parts) = 5 =>
              /\ (\A i \in 1..5 : parts[i] = Star) => accepted
              /\ ~accepted => last.error.value # Star
              /\ accepted =>
                   \A i \in 1..5 :
                      /\ parts[i] # StepWord
                      /\ parts[i].k = "step" => parts[i].v >= 1
                      /\ parts[i].k = "int" =>
                            parts[i].v >= lo[i] /\ parts[i].v <= hi[i]
              /\ (\A i \in 1..5 :
                      \/ parts[i] \in {Star, Word}
                      \/ parts[i].k = "step" /\ parts[i].v >= 1
                      \/ parts[i].k = "int" /\ parts[i].v >= lo[i]
                                            /\ parts[i].v <= hi[i])
                   => accepted

\* "* * * * 7" is rejected with the out-of-range message of day_of_week
C30_Witness ==
    /\ last.op = "validate_cron_expression"
    /\ last.cron = Cron(<<Star, Star, Star, Star, Num(7)>>)
    /\ last.error =
         CronError("Invalid {} value: {} (must be {}-{})", "day_of_week", Num(7))

(***************************************************************************)
(* The deployment store used on its own: create_deployment,                *)
(* update_deployment_status and delete_deployment called by any client for *)
(* any user.                                                                *)
(***************************************************************************)
StoreCreate ==
    \E deployment_id \in SchedulerIds \ DOMAIN deployments, user_id \in Users,
       triggers \in DeployInputs :
        /\ deployments' = create_deployment(deployments, deployment_id, user_id,
                                            triggers, <<>>)
        /\ last' = [NoCall EXCEPT !.op = "create_deployment", !.id = deployment_id]
        /\ UNCHANGED <<runs, jobs, handlers, tasks, now, run_callback, execution, credentials, startup>>

StoreUpdateStatus ==
    \E deployment_id \in SchedulerIds, status \in {"active", "paused"} :
        /\ deployments' = update_deployment_status(deployments, deployment_id, status)
        /\ last' = [NoCall EXCEPT !.op = "update_deployment_status",
                                  !.id = deployment_id]
        /\ UNCHANGED <<runs, jobs, handlers, tasks, now, run_callback, execution, credentials, startup>>

StoreDelete ==
    \E deployment_id \in SchedulerIds :
        /\ deployments' = delete_deployment(deployments, deployment_id)
        /\ last' = [NoCall EXCEPT !.op = "delete_deployment", !.id = deployment_id]
        /\ UNCHANGED <<runs, jobs, handlers, tasks, now, run_callback, execution, credentials, startup>>

StoreNext == StoreCreate \/ StoreUpdateStatus \/ StoreDelete

StoreSpec == Init /\ [][StoreNext]_vars

\* C28: no operation of the store removes a row; after delete_deployment(id)
\* get_deployment(id) returns the deployment with status deleted; and
\* get_deployments_by_user(owner) returns exactly the deployments of the
\* owner whose status is not deleted.
C28_SoftDelete ==
    [][/\ DOMAIN deployments \subseteq DOMAIN deployments'
       /\ (last'.op = "delete_deployment" /\ last'.id \in DOMAIN deployments) =>
             /\ get_deployment(deployments', last'.id) # NoDeployment
             /\ get_deployment(deployments', last'.id).id = last'.id
             /\ get_deployment(deployments', last'.id).status = "deleted"
             /\ \A u \in Users :
                   \A d \in get_deployments_by_user(deployments', u) :
                       d.id # last'.id
       /\ \A u \in Users :
             /\ \A d \in get_deployments_by_user(deployments', u) :
                   /\ d.id \in DOMAIN deployments'
                   /\ d = get_deployment(deployments', d.id)
                   /\ d.user_id = u
                   /\ d.status # "deleted"
             /\ \A id \in DOMAIN deployments' :
                   (deployments'[id].user_id = u
                      /\ deployments'[id].status # "deleted") =>
                       \E d \in get_deployments_by_user(deployments', u) :
                           d.id = id]_vars

\* a deployment deleted while its owner has another one that is listed
C28_Witness ==
    /\ last.op = "delete_deployment"
    /\ last.id \in DOMAIN deployments
    /\ deployments[last.id].status = "deleted"
    /\ \E d \in get_deployments_by_user(deployments, deployments[last.id].user_id) :
          d.id # last.id

(***************************************************************************)
(* The credential store used on its own: credentials are stored and        *)
(* deleted, integrations are registered, and has_credentials and           *)
(* get_env_for_execution are called for any user.                           *)
(***************************************************************************)
Integrations == {gmail, messaging, notes, stripe}

Registries ==
    {_INTEGRATION_REGISTRY, register_integration(_INTEGRATION_REGISTRY, NOTES_SPEC)}

\* the dicts set_credentials is called with: none of the keys, one, both,
\* and two keys that differ by case only, in both orders
CredentialDicts ==
    { <<>>,
      <<<<access_token, "s1">>>>,
      <<<<refresh_token, "s2">>>>,
      <<<<access_token, "s1">>, <<refresh_token, "s2">>>>,
      <<<<access_token, "s1">>, <<upper(access_token), "s2">>>>,
      <<<<upper(access_token), "s2">>, <<access_token, "s1">>>> }

IntegrationLists ==
    { <<>>, <<gmail>>, <<notes>>, <<stripe>>, <<gmail, messaging>>,
      <<stripe, gmail>> }

SetCredentials(user_id, integration, creds) ==
    /\ Cardinality(DOMAIN credentials \cup {<<user_id, integration>>})
          <= MaxCredentialRows
    /\ credentials' = set_credentials(credentials, user_id, integration, creds)
    /\ UNCHANGED <<deployments, runs, jobs, handlers, tasks, now, last, run_callback, execution, startup>>

DeleteCredentials(user_id, integration) ==
    /\ credentials' = delete_credentials(credentials, user_id, integration)
    /\ UNCHANGED <<deployments, runs, jobs, handlers, tasks, now, last, run_callback, execution, startup>>

CallHasCredentials(registry, user_id, integration) ==
    /\ last' = [NoCall EXCEPT !.op = "has_credentials",
                              !.user_id = user_id,
                              !.integrations = <<integration>>,
                              !.registry = registry,
                              !.has = has_credentials(registry, credentials,
                                                      user_id, integration)]
    /\ UNCHANGED <<deployments, runs, jobs, handlers, tasks, now, run_callback, execution, credentials, startup>>

CallGetEnvForExecution(registry, user_id, integrations) ==
    /\ last' = [NoCall EXCEPT !.op = "get_env_for_execution",
                              !.user_id = user_id,
                              !.integrations = integrations,
                              !.registry = registry,
                              !.env = get_env_for_execution(
                                         registry, credentials, user_id,
                                         integrations)]
    /\ UNCHANGED <<deployments, runs, jobs, handlers, tasks, now, run_callback, execution, credentials, startup>>

CredentialStoreNext ==
    \/ \E u \in Users, i \in Integrations, creds \in CredentialDicts :
          SetCredentials(u, i, creds)
    \/ \E u \in Users, i \in Integrations : DeleteCredentials(u, i)
    \/ \E registry \in Registries, u \in Users, i \in Integrations :
          CallHasCredentials(registry, u, i)
    \/ \E registry \in Registries, u \in Users, is \in IntegrationLists :
          CallGetEnvForExecution(registry, u, is)

CredentialStoreSpec == Init /\ [][CredentialStoreNext]_vars

\* C22: for every registered integration and every stored credential set
\* (no record and an empty record included), has_credentials is true
\* exactly when every key the integration declares as required is in the
\* stored set: always when it declares no required key, never when one is
\* missing.
C22_CredentialCompleteness ==
    [][(last' # last /\ last'.op = "has_credentials"
          /\ last'.integrations[1] \in DOMAIN last'.registry) =>
         LET spec == last'.registry[last'.integrations[1]]
             required == {spec.credentials[i].key :
                             i \in {j \in 1..Len(spec.credentials) :
                                       spec.credentials[j].required}}
             row == <<last'.user_id, last'.integrations[1]>>
             present == IF row \in DOMAIN credentials
                        THEN {credentials[row][i][1] :
                                 i \in 1..Len(credentials[row])}
                        ELSE {}
         IN last'.has = (required \subseteq present)]_vars

\* C23: get_env_for_execution puts the value of every stored key of every
\* listed integration, unchanged, under the name declared for the key in
\* the registry or, for a key without declared name, under the uppercased
\* "<INTEGRATION>_<KEY>"; it puts nothing else, so an integration without
\* stored credentials contributes no variable.
C23_EveryKeyInjected ==
    [][(last' # last /\ last'.op = "get_env_for_execution") =>
         LET call == last'
             declared(spec, k) ==
                 {spec.credentials[i].env_var :
                     i \in {j \in 1..Len(spec.credentials) :
                               spec.credentials[j].key = k}}
                   \cup {spec.credentials[i].refresh_env_var[1] :
                            i \in {j \in 1..Len(spec.credentials) :
                                      /\ spec.credentials[j].refresh_key = <<k>>
                                      /\ spec.credentials[j].refresh_env_var # <<>>}}
             names(integration, k) ==
                 IF integration \in DOMAIN call.registry
                       /\ declared(call.registry[integration], k) # {}
                 THEN declared(call.registry[integration], k)
                 ELSE {upper(integration) \o <<"_">> \o upper(k)}
             rows == {n \in 1..Len(call.integrations) :
                         <<call.user_id, call.integrations[n]>>
                            \in DOMAIN credentials}
             stored(n) == credentials[<<call.user_id, call.integrations[n]>>]
         IN /\ \A n \in rows :
                  \A j \in 1..Len(stored(n)) :
                     \E name \in names(call.integrations[n], stored(n)[j][1]) :
                         /\ name \in DOMAIN call.env
                         /\ call.env[name] = stored(n)[j][2]
            /\ \A name \in DOMAIN call.env :
                  \E n \in rows :
                     \E j \in 1..Len(stored(n)) :
                         name \in names(call.integrations[n], stored(n)[j][1])]_vars

(***************************************************************************)
(* Properties of the fire callback and the credentials.                    *)
(***************************************************************************)
\* the tasks in flight that work on a run
TasksOf(run_id) == {t \in BagToSet(tasks) : t.run_id = run_id}

\* C24: every run execute_run creates reaches a terminal status through
\* update_run_completed, whatever get_env_for_execution and
\* executor.execute do: once the task that created a run has ended, the
\* status of the run is terminal.
C24_RunsReachTerminal ==
    \A r \in DOMAIN runs : TasksOf(r) = {} => runs[r].status \in Terminal

(***************************************************************************)
(* Deployments that use gmail: the owner stores and deletes the gmail      *)
(* credentials between the firings, deploys, and the jobs fire.             *)
(***************************************************************************)
ProvisionNext ==
    \/ /\ handlers = EmptyBag /\ tasks = EmptyBag
       /\ SetCredentials(get_current_user_id, gmail, <<<<access_token, "s1">>>>)
    \/ /\ handlers = EmptyBag /\ tasks = EmptyBag
       /\ DeleteCredentials(get_current_user_id, gmail)
    \/ /\ handlers = EmptyBag
       /\ \E triggers \in ExecutionInputs : Deploy(triggers, <<gmail>>)
    \/ \E h \in BagToSet(handlers) : DeployRegister(h)
    \/ ExecuteJob
    \/ TaskStep

ProvisionSpec == Init /\ [][ProvisionNext]_vars

\* the integrations of a deployment that declare required credentials and
\* for which has_credentials is false
Unconfigured(deployment_id) ==
    LET d == get_deployment(deployments, deployment_id)
    IN {d.integrations[i] : i \in
          {j \in 1..Len(d.integrations) :
              /\ get_required_credential_keys(
                    get_integration(_INTEGRATION_REGISTRY, d.integrations[j])) # {}
              /\ ~has_credentials(_INTEGRATION_REGISTRY, credentials, d.user_id,
                                  d.integrations[j])}}

\* C21: executor.execute is not called for a firing of a deployment one of
\* whose integrations declares required credentials and has none stored,
\* also when they were deleted after the deployment was created.  The
\* credentials change between firings only, so they are at the call what
\* they were when the job fired.
C21_NoExecutionWithoutCredentials ==
    [][\A t \in BagToSet(tasks) :
          (t.pc = "execute" /\ CopiesIn(t, tasks') < CopiesIn(t, tasks)) =>
              Unconfigured(t.deployment_id) = {}]_vars

(***************************************************************************)
(* Pause, resume and delete while jobs fire: deployments are deployed and  *)
(* the requests served one at a time, the jobs fire and the fire callbacks *)
(* run while the requests are served.                                       *)
(***************************************************************************)
PauseNext ==
    \/ /\ handlers = EmptyBag
       /\ \E triggers \in ExecutionInputs : DeployCreate(triggers)
    \/ /\ handlers = EmptyBag
       /\ \E op \in Operations, id \in DeploymentIds : GetDeployment(op, id)
    \/ HandlerStep
    \/ ExecuteJob
    \/ TaskStep

PauseSpec == Init /\ [][PauseNext]_vars

\* C27: pause and delete prevent future firings only: a job fires only
\* while it is registered, so none of the deployment fires between the
\* unregistration and the next registration; no step of a request handler
\* touches a callback in flight; and the run of a callback that was in
\* flight ends in a terminal status other than cancelled.
C27_PauseSparesRunsInFlight ==
    [][/\ \A t \in BagToSet(tasks') :
             CopiesIn(t, tasks') > CopiesIn(t, tasks) /\ t.pc = "get_deployment" =>
                 HasLiveJob(t.deployment_id)
       /\ handlers' # handlers => tasks' = tasks /\ runs' = runs
       /\ \A r \in DOMAIN runs' :
             (deployments'[runs'[r].deployment_id].status \in {"paused", "deleted"}
                /\ \A t \in BagToSet(tasks') : t.run_id # r) =>
                 runs'[r].status \in Terminal \ {"cancelled"}]_vars

(***************************************************************************)
(* The run ledger used by several clients of the database at once (the     *)
(* orchestrator and any other holder of the service key).  A call of       *)
(* update_run_completed is two requests, and the requests of the other     *)
(* clients are served between them.                                         *)
(***************************************************************************)
ClientSelectStartedAt ==
    \E run_id \in LedgerRunIds, result \in ExecutionResults :
        /\ BagCardinality(tasks) < MaxClients
        /\ tasks' = tasks (+) SetToBag({
               [Task(<<>>, None, <<>>, "update", run_id, result)
                   EXCEPT !.completed_at = now,
                          !.duration_ms = select_duration_ms(runs, run_id, now)]})
        /\ UNCHANGED <<deployments, runs, jobs, handlers, now, last, run_callback, execution, credentials, startup>>

ClientUpdateCompleted ==
    \E t \in BagToSet(tasks) :
        /\ t.pc = "update"
        /\ runs' = update_completed(runs, t.run_id, t.completed_at,
                                    t.duration_ms, t.result)
        /\ tasks' = tasks (-) SetToBag({t})
        /\ last' = [NoCall EXCEPT !.op = "update_run_completed", !.id = t.run_id]
        /\ UNCHANGED <<deployments, jobs, handlers, now, run_callback, execution, credentials, startup>>

ClientsNext ==
    \/ LedgerCreateRun
    \/ LedgerRunStarted
    \/ ClientSelectStartedAt
    \/ ClientUpdateCompleted
    \/ Tick

ClientsSpec == Init /\ [][ClientsNext]_vars

\* C25: update_run_completed is atomic with respect to the other operations
\* on the run: the duration_ms it writes is the difference of the
\* completed_at it writes and the started_at the record holds when it is
\* written, null if that started_at is null.
C25_CompletionAtomic ==
    [][(last' # last /\ last'.op = "update_run_completed"
          /\ last'.id \in DOMAIN runs') =>
         LET run == runs'[last'.id]
         IN run.duration_ms =
               IF run.started_at = <<>> THEN <<>>
               ELSE <<(run.completed_at[1] - run.started_at[1]) * 1000>>]_vars

(***************************************************************************)
(* get_next_run_time used on its own: deployments are registered and       *)
(* unregistered, time passes, and a caller asks for the next run time of a *)
(* deployment.                                                              *)
(***************************************************************************)
NextRunTriggers ==
    { Trigger("schedule", <<"f">>, CronDaily, "UTC"),
      Trigger("schedule", <<"g">>, CronEvery5, "UTC"),
      Trigger("schedule", <<"f">>, CronNever, "UTC"),
      Trigger("schedule", <<"g">>, Cron(<<Star, Star, Star, Star, Star>>), "UTC") }

NextRunDeployments ==
    {Deployment(id, "active", ts) :
        id \in SchedulerIds, ts \in SeqsUpTo(NextRunTriggers, MaxSchedulerTriggers)}

NextRunUnregister(deployment_id) ==
    /\ jobs' = unregister_deployment(jobs, deployment_id).jobs
    /\ UNCHANGED <<deployments, runs, handlers, tasks, now, last, run_callback, execution, credentials, startup>>

\* a caller asks for the next run time of a deployment; nothing else
\* happens until it has dropped the answer
CallGetNextRunTime(deployment_id) ==
    /\ last' = [NoCall EXCEPT !.op = "get_next_run_time", !.id = deployment_id,
                              !.next_run = get_next_run_time(jobs, deployment_id, now)]
    /\ UNCHANGED <<deployments, runs, jobs, handlers, tasks, now, run_callback, execution, credentials, startup>>

NextRunReturn ==
    /\ last.op = "get_next_run_time"
    /\ last' = NoCall
    /\ UNCHANGED <<deployments, runs, jobs, handlers, tasks, now, run_callback, execution, credentials, startup>>

NextRunNext ==
    \/ /\ last = NoCall
       /\ \/ \E d \in NextRunDeployments : FiringRegister(d)
          \/ \E id \in SchedulerIds : NextRunUnregister(id)
          \/ Tick
          \/ \E id \in SchedulerIds : CallGetNextRunTime(id)
    \/ NextRunReturn

NextRunSpec == Init /\ [][NextRunNext]_vars

\* the next-fire times, at time t, of the jobs of js whose id starts with
\* deployment_id + ":"
FireTimes(js, deployment_id, t) ==
    UNION { {next_run_time(j, t)[i] : i \in DOMAIN next_run_time(j, t)} :
               j \in {k \in BagToSet(js) :
                         startswith(k.id, deployment_id \o <<":">>)} }

\* C31: get_next_run_time(deployment_id) returns the minimum next-fire time
\* over the live jobs whose id starts with deployment_id + ":", whatever the
\* jobs of other deployments are, and returns none exactly when the
\* deployment has no live job with a next-fire time.
C31_NextFireTimeIsMinimum ==
    last.op = "get_next_run_time" =>
        LET times == FireTimes(jobs, last.id, now)
        IN /\ last.next_run = <<>> <=> times = {}
           /\ times # {} =>
                 /\ last.next_run[1] \in times
                 /\ \A n \in times : last.next_run[1] <= n

C31_Witness ==
    /\ last.op = "get_next_run_time"
    /\ last.id = generate_id("d", 1)
    /\ last.next_run # <<>>
    /\ \E j \in BagToSet(jobs) :
          /\ job_matches(j, last.id) /\ next_run_time(j, now) = <<>>
    /\ \E n \in FireTimes(jobs, generate_id("d", 2), now) :
          n < last.next_run[1]

(***************************************************************************)
(* Requests served one at a time by a store whose status update may fail:  *)
(* storage.update_deployment_status raises (the store is unreachable), the *)
(* handler does not catch it and the request is answered with status 500.  *)
(* The jobs at the time the request was accepted are recorded.              *)
(***************************************************************************)
AcceptRequest(op, deployment_id) ==
    /\ handlers = EmptyBag
    /\ handlers' = handlers (+) SetToBag({
           Handler(op, deployment_id, "got_deployment",
                   get_deployment(deployments, deployment_id))})
    /\ last' = [NoCall EXCEPT !.op = "request", !.id = deployment_id,
                              !.before = jobs]
    /\ UNCHANGED <<deployments, runs, jobs, tasks, now, run_callback, execution, credentials, startup>>

\* delete, pause, resume: update_deployment_status raises
UpdateStatusRaises(h) ==
    /\ h.pc = "update_status"
    /\ handlers' = handlers (-) SetToBag({h})
    /\ last' = [Response(h.op, h.id, 500, 0)
                   EXCEPT !.raised = TRUE, !.before = last.before]
    /\ UNCHANGED <<deployments, runs, jobs, tasks, now, run_callback, execution, credentials, startup>>

StoreFailureNext ==
    \/ /\ handlers = EmptyBag
       /\ \E triggers \in SeqsUpTo(DeployTriggers, MaxTriggers) :
             DeployCreate(triggers)
    \/ \E op \in Operations, id \in DeploymentIds : AcceptRequest(op, id)
    \/ HandlerStep
    \/ \E h \in BagToSet(handlers) : UpdateStatusRaises(h)

StoreFailureSpec == Init /\ [][StoreFailureNext]_vars

\* C33: when the status update of a pause, resume or delete request fails,
\* the request ends with an exception and the jobs of the deployment are
\* those it had when the request was accepted.
C33_FailedUpdateKeepsJobs ==
    (last.op \in Operations /\ last.raised) =>
        /\ last.code = 500
        /\ JobsOf(jobs, last.id) = JobsOf(last.before, last.id)

(***************************************************************************)
(* Isolation of the executions in flight, checked under ExecutionSpec.     *)
(***************************************************************************)
\* the execute_run tasks that have created their run
TasksWithRun == {t \in BagToSet(tasks) : t.run_id # <<>>}

\* C34: executions in flight at the same time are isolated in the ledger:
\* every execute_run creates a run of its own, under an id no other run and
\* no other execution has, and a step of an execution changes the record of
\* its own run only.
C34_ExecutionsIsolated ==
    [][/\ \A t \in TasksWithRun : tasks[t] = 1
       /\ \A t1, t2 \in TasksWithRun : t1.run_id = t2.run_id => t1 = t2
       /\ DOMAIN runs \subseteq DOMAIN runs'
       /\ \A r \in DOMAIN runs' \ DOMAIN runs :
             /\ DOMAIN runs' = DOMAIN runs \cup {r}
             /\ \A t \in TasksWithRun : t.run_id # r
             /\ \E t \in BagToSet(tasks') : t.run_id = r /\ tasks'[t] = 1
             /\ \A q \in DOMAIN runs : runs'[q] = runs[q]
       /\ \A r \in DOMAIN runs :
             runs'[r] # runs[r] =>
                /\ \E t \in TasksWithRun :
                      /\ t.run_id = r
                      /\ t.pc \in {"update_run_started", "update_run_completed"}
                      /\ t \notin BagToSet(tasks')
                /\ \A q \in DOMAIN runs \ {r} : runs'[q] = runs[q]]_vars

C34_Witness ==
    \E t1, t2 \in TasksWithRun :
        /\ t1.run_id # t2.run_id
        /\ t1.deployment_id = t2.deployment_id
        /\ t1.func_name = t2.func_name
        /\ t1.pc = "update_run_completed"
        /\ t2.pc = "update_run_completed"
        /\ t1.result # t2.result
        /\ runs[t1.run_id].status = "running"
        /\ runs[t2.run_id].status = "running"

(***************************************************************************)
(* The fire callback called for a deployment the store does not hold: a    *)
(* deployment is deployed and its jobs fire, and the Scheduler also holds  *)
(* a job of a Deployment object that was never stored.                      *)
(***************************************************************************)
UnknownDeployment ==
    Deployment(generate_id("d", MaxDeployments + 1), "active",
               <<Trigger("schedule", <<"f">>, CronDaily, "UTC")>>)

UnknownNext ==
    \/ /\ handlers = EmptyBag
       /\ DeployCreate(<<Trigger("schedule", <<"f">>, CronDaily, "UTC")>>)
    \/ \E h \in BagToSet(handlers) : DeployRegister(h)
    \/ FiringRegister(UnknownDeployment)
    \/ ExecuteJob
    \/ TaskStep

UnknownSpec == Init /\ [][UnknownNext]_vars

\* C35: when execute_run is called for a deployment id the store does not
\* hold, it returns at once: no run is created, the ledger is unchanged, and
\* the task never reaches create_run, get_env_for_execution or
\* executor.execute, so every task past get_deployment and every run belongs
\* to a stored deployment.
C35_UnknownDeploymentIgnored ==
    [][/\ \A t \in BagToSet(tasks) :
             (/\ t.pc = "get_deployment"
              /\ t.deployment_id \notin DOMAIN deployments
              /\ CopiesIn(t, tasks') < CopiesIn(t, tasks))
             => /\ runs' = runs
                /\ tasks' = tasks (-) SetToBag({t})
       /\ \A t \in BagToSet(tasks') :
             t.pc # "get_deployment" => t.deployment_id \in DOMAIN deployments'
       /\ \A r \in DOMAIN runs' :
             runs'[r].deployment_id \in DOMAIN deployments']_vars

C35_Witness ==
    /\ last.op = "deployment_not_found"
    /\ last.id = UnknownDeployment.id
    /\ last.id \notin DOMAIN deployments
    /\ \E j \in BagToSet(jobs) : j.args[1] = last.id
    /\ \A t \in BagToSet(tasks) : t.deployment_id # last.id
    /\ \E r \in DOMAIN runs : runs[r].status \in Terminal
    /\ \A r \in DOMAIN runs : runs[r].deployment_id # last.id

(***************************************************************************)
(* Requests served one at a time on deployments of every status: between   *)
(* the requests, an operator of the store may set the status of a          *)
(* deployment to error (no request of the application writes that status). *)
(***************************************************************************)
MarkError(deployment_id) ==
    /\ handlers = EmptyBag
    /\ deployment_id \in DOMAIN deployments
    /\ deployments' = update_deployment_status(deployments, deployment_id, "error")
    /\ last' = [NoCall EXCEPT !.op = "update_deployment_status",
                              !.id = deployment_id]
    /\ UNCHANGED <<runs, jobs, handlers, tasks, now, run_callback, execution, credentials, startup>>

ResumeNext ==
    \/ SequentialNext
    \/ \E id \in DeploymentIds : MarkError(id)

ResumeSpec == Init /\ [][ResumeNext]_vars

\* C36: a resume request on a deployment whose stored status is not paused
\* is answered with status 400 and changes nothing: no step of the request
\* changes the stored deployments or the jobs.
C36_ResumeOfNotPausedRejected ==
    [][\A h \in BagToSet(handlers) :
          (/\ h.op = "resume"
           /\ h.id \in DOMAIN deployments
           /\ deployments[h.id].status # "paused"
           /\ CopiesIn(h, handlers') < CopiesIn(h, handlers))
          => /\ h.pc = "got_deployment"
             /\ handlers' = handlers (-) SetToBag({h})
             /\ last'.op = "resume" /\ last'.id = h.id /\ last'.code = 400
             /\ deployments' = deployments
             /\ jobs' = jobs]_vars

C36_Witness ==
    /\ last.op = "resume" /\ last.code = 400
    /\ handlers = EmptyBag
    /\ last.id \in DOMAIN deployments
    /\ deployments[last.id].status = "error"
    /\ HasLiveJob(last.id)

(***************************************************************************)
(* Startup, step by step.  The process ends and the next one runs          *)
(* lifespan: a new Scheduler (no callback, no job, not started), then the  *)
(* calls of lifespan_steps in their order, then the application serves     *)
(* requests.  The job store fires a job only once the Scheduler has been   *)
(* started; a callback is followed up to the return of its get_deployment. *)
(***************************************************************************)
\* AsyncIOScheduler.running: start has been called
scheduler_running == \E i \in 1..startup : lifespan_steps[i] = "start"

\* the process ends, with the tasks in flight; scheduler = Scheduler()
Restart ==
    /\ startup = Len(lifespan_steps)
    /\ handlers = EmptyBag
    /\ jobs' = EmptyBag
    /\ run_callback' = None
    /\ tasks' = EmptyBag
    /\ startup' = 0
    /\ last' = NoCall
    /\ UNCHANGED <<deployments, runs, handlers, now, execution, credentials>>

\* the next call of lifespan
LifespanStep ==
    /\ startup < Len(lifespan_steps)
    /\ startup' = startup + 1
    /\ LET step == lifespan_steps[startup + 1]
       IN /\ run_callback' = IF step = "set_run_callback" THEN "execute_run"
                             ELSE run_callback
          /\ jobs' = IF step = "register_deployment"
                     THEN register_all(jobs, get_active_deployments(deployments))
                     ELSE jobs
    /\ UNCHANGED <<deployments, runs, handlers, tasks, now, last, execution, credentials>>

StartupNext ==
    \/ /\ startup = Len(lifespan_steps)
       /\ handlers = EmptyBag
       /\ \E triggers \in SeqsUpTo(DeployTriggers, MaxTriggers)
                                \cup ExecutionInputs :
             DeployCreate(triggers)
    \/ \E h \in BagToSet(handlers) : DeployRegister(h)
    \/ Restart
    \/ LifespanStep
    \/ /\ scheduler_running
       /\ \E job \in BagToSet(jobs) : CallExecuteJob(job)
    \/ \E t \in BagToSet(tasks) : RunGetDeployment(t)

StartupSpec == Init /\ [][StartupNext]_vars

\* C37: in the startup sequence the run callback is installed before a
\* deployment is registered and before the Scheduler is started, so no
\* firing finds the Scheduler without callback: the callback is installed
\* whenever a job is registered, whenever the Scheduler starts or is
\* running, and every firing starts its callback.
C37_CallbackInstalledFirst ==
    [][/\ (jobs' # jobs /\ jobs' # EmptyBag) => run_callback # None
       /\ (\E i \in (startup + 1)..startup' : lifespan_steps[i] = "start")
             => run_callback # None
       /\ (\E i \in 1..startup' : lifespan_steps[i] = "start")
             => run_callback' # None
       /\ (last'.op = "fire" /\ last' # last) =>
             /\ run_callback # None
             /\ BagCardinality(tasks') = BagCardinality(tasks) + 1]_vars

C37_Witness ==
    /\ startup = Len(lifespan_steps) - 1
    /\ ~scheduler_running
    /\ run_callback = "execute_run"
    /\ tasks = EmptyBag
    /\ \E d \in DOMAIN deployments :
          /\ deployments[d].status = "active"
          /\ HasLiveJob(d)
====
